---- MODULE Spec2Model ----
(***************************************************************************)
(* A model of the tabular data core of the ERP Excel analyst               *)
(* (src/utils.ts): detectColumnType, parseDateSafe, cleanAndEnrichData,    *)
(* getSmartSample and aggregateData.                                       *)
(*                                                                         *)
(* Conventions.                                                            *)
(*  - A JavaScript string is a sequence of characters; a character is a    *)
(*    one-character TLA+ string, a CJK character is written by its code    *)
(*    point ("U55AE" is the character of 單).                              *)
(*  - A JavaScript number that may be NaN is a record [nan, v]; see Num    *)
(*    and NaN.                                                             *)
(*  - A time value is counted in HOURS since the epoch (the code counts    *)
(*    milliseconds; every time value the model produces is a whole number  *)
(*    of hours, and a millisecond count does not fit TLC's integers).      *)
(*  - The engine is V8: the application needs the File System Access API   *)
(*    (src/services/fileSystemService.ts), which only Chromium has.        *)
(*  - tz is the local time zone of the browser, in hours east of UTC,    *)
(*    an input of the environment.                                         *)
(***************************************************************************)
EXTENDS Integers, Sequences, FiniteSets, TLC

VARIABLES
  tz,         \* local time zone offset, hours east of UTC
  data,       \* the dataset: a sequence of rows
  parseArgs,  \* the strings handed to parseDateSafe
  parseRes,   \* parseDateSafe's result for each of parseArgs
  clsCol,     \* the column handed to detectColumnType
  clsOut,     \* detectColumnType's outcome
  smpLimit,   \* the limit handed to getSmartSample
  smpOut,     \* getSmartSample's result
  cleanRuns,  \* how many times cleanAndEnrichData has run on data
  cleanIn,    \* the dataset as it was before the first run
  cleanOnce,  \* the dataset as it was after the first run
  aggX,       \* the category column handed to aggregateData
  aggY,       \* the value column handed to aggregateData
  aggOut,     \* aggregateData's result
  stats,      \* getDatasetStats's result
  language,   \* App: the language of the interface
  appState,   \* App: IDLE, PARSING, ANALYZING, SUCCESS or ERROR
  analysis,   \* App: the analysis on display
  lastUpdated, \* App: the time of the last update of the analysis
  isRefreshing, \* App: a refresh of the analysis is under way
  effects,    \* App: the runs of the language effect, each with its isAborted
  now,        \* Date.now()
  startCall,  \* App: the call of handleStartAnalysis under way
  variant,    \* which of the two copies of analyzeDataWithGemini runs
  pc,         \* analyzeDataWithGemini: where the call stands
  sent,       \* how many times performRequest has been called
  firstErr,   \* the error of the first request
  secondErr,  \* the error of the second request
  elapsed,    \* milliseconds since setTimeout was called
  outcome     \* what analyzeDataWithGemini returned or threw

appVars == <<language, appState, analysis, lastUpdated, isRefreshing, effects,
             now, startCall>>

callVars == <<variant, pc, sent, firstErr, secondErr, elapsed, outcome>>

vars == <<tz, data, parseArgs, parseRes, clsCol, clsOut, smpLimit, smpOut,
          cleanRuns, cleanIn, cleanOnce, aggX, aggY, aggOut, stats,
          appVars, callVars>>

\* null, for analysis
NoAnalysis == [language |-> "null"]

\* no call of handleStartAnalysis under way
NoCall == [stage |-> "none", language |-> "null"]

\* no error, no return value
Nothing == [kind |-> "none", message |-> <<>>]

\* the App component is not mounted
AppIdle ==
  /\ language = "en-US" /\ appState = "IDLE" /\ analysis = NoAnalysis
  /\ lastUpdated = 0 /\ isRefreshing = FALSE /\ effects = <<>> /\ now = 0
  /\ startCall = NoCall

\* analyzeDataWithGemini is not called
CallIdle ==
  /\ variant = "none" /\ pc = "idle" /\ sent = 0 /\ firstErr = Nothing
  /\ secondErr = Nothing /\ elapsed = 0 /\ outcome = Nothing

----------------------------------------------------------------------------
(* JavaScript values *)

Num(n) == [nan |-> FALSE, v |-> n]

NaN == [nan |-> TRUE, v |-> 0]

\* a < b on numbers: false as soon as one side is NaN
JsLt(a, b) == ~a.nan /\ ~b.nan /\ a.v < b.v

JsGt(a, b) == JsLt(b, a)

\* a number in a boolean position: 0 and NaN are falsy
Truthy(a) == ~a.nan /\ a.v # 0

\* F applied to the value of v, computed once
Bind(v, F(_)) == CHOOSE out \in {F(x) : x \in {v}} : TRUE

NoResult == <<>>

\* no call of detectColumnType yet
NoType == "none"

----------------------------------------------------------------------------
(* Strings *)

Digit == {"0", "1", "2", "3", "4", "5", "6", "7", "8", "9"}

DigitVal(c) ==
  CASE c = "0" -> 0 [] c = "1" -> 1 [] c = "2" -> 2 [] c = "3" -> 3
    [] c = "4" -> 4 [] c = "5" -> 5 [] c = "6" -> 6 [] c = "7" -> 7
    [] c = "8" -> 8 [] c = "9" -> 9

DigitChar(n) ==
  CASE n = 0 -> "0" [] n = 1 -> "1" [] n = 2 -> "2" [] n = 3 -> "3"
    [] n = 4 -> "4" [] n = 5 -> "5" [] n = 6 -> "6" [] n = 7 -> "7"
    [] n = 8 -> "8" [] n = 9 -> "9"

Range(s) == {s[i] : i \in DOMAIN s}

AllDigits(s) == \A i \in DOMAIN s : s[i] \in Digit

\* String.prototype.substring(from, to), 0-based, to exclusive
Substring(s, from, to) ==
  LET a == IF from < 0 THEN 0 ELSE IF from > Len(s) THEN Len(s) ELSE from
      b == IF to < 0 THEN 0 ELSE IF to > Len(s) THEN Len(s) ELSE to
  IN  IF a <= b THEN SubSeq(s, a + 1, b) ELSE SubSeq(s, b + 1, a)

\* String.prototype.substring(from)
SubstringFrom(s, from) == Substring(s, from, Len(s))

\* String.prototype.includes
Includes(s, k) ==
  \E i \in 0..(Len(s) - Len(k)) : SubSeq(s, i + 1, i + Len(k)) = k

RECURSIVE TrimStart(_)
TrimStart(s) ==
  IF s # <<>> /\ Head(s) = " " THEN TrimStart(Tail(s)) ELSE s

RECURSIVE TrimEnd(_)
TrimEnd(s) ==
  IF s # <<>> /\ s[Len(s)] = " " THEN TrimEnd(SubSeq(s, 1, Len(s) - 1)) ELSE s

\* String.prototype.trim
Trim(s) == TrimEnd(TrimStart(s))

\* the value of a string of digits
RECURSIVE DigitsValue(_)
DigitsValue(s) ==
  IF s = <<>> THEN 0
  ELSE 10 * DigitsValue(SubSeq(s, 1, Len(s) - 1)) + DigitVal(s[Len(s)])

\* the longest prefix of s made of digits
RECURSIVE DigitPrefix(_)
DigitPrefix(s) ==
  IF s # <<>> /\ Head(s) \in Digit THEN <<Head(s)>> \o DigitPrefix(Tail(s))
  ELSE <<>>

\* parseInt(s): leading blanks, a sign, then the longest run of digits
ParseInt(s) ==
  LET t == TrimStart(s)
      neg == t # <<>> /\ Head(t) = "-"
      u == IF t # <<>> /\ Head(t) \in {"-", "+"} THEN Tail(t) ELSE t
      d == DigitPrefix(u)
  IN  IF d = <<>> THEN NaN
      ELSE Num(IF neg THEN 0 - DigitsValue(d) ELSE DigitsValue(d))

\* String.prototype.split(/[-/]/)
RECURSIVE SplitDate(_)
SplitDate(s) ==
  IF \E i \in DOMAIN s : s[i] \in {"-", "/"}
  THEN LET i == CHOOSE j \in DOMAIN s :
                  /\ s[j] \in {"-", "/"}
                  /\ \A k \in 1..(j - 1) : s[k] \notin {"-", "/"}
       IN  <<SubSeq(s, 1, i - 1)>> \o SplitDate(SubSeq(s, i + 1, Len(s)))
  ELSE <<s>>

\* String.prototype.split(sep)[0] for a one-character separator
FirstPart(s, sep) ==
  IF \E i \in DOMAIN s : s[i] = sep
  THEN LET i == CHOOSE j \in DOMAIN s :
                  s[j] = sep /\ \A k \in 1..(j - 1) : s[k] # sep
       IN  SubSeq(s, 1, i - 1)
  ELSE s

\* Array.prototype.join('/')
RECURSIVE JoinSlash(_)
JoinSlash(parts) ==
  IF parts = <<>> THEN <<>>
  ELSE IF Len(parts) = 1 THEN parts[1]
  ELSE parts[1] \o <<"/">> \o JoinSlash(Tail(parts))

\* String(n) of an integer
RECURSIVE NatToString(_)
NatToString(n) ==
  IF n < 10 THEN <<DigitChar(n)>>
  ELSE NatToString(n \div 10) \o <<DigitChar(n % 10)>>

IntToString(n) == IF n < 0 THEN <<"-">> \o NatToString(0 - n) ELSE NatToString(n)

----------------------------------------------------------------------------
(* Dates: ECMAScript's day arithmetic and V8's Date parsing *)

\* 1000 * 60 * 60 * 24 milliseconds
HoursPerDay == 24

\* the time zones of the model: New York (winter), UTC, Taipei
TZOffsets == {0 - 5, 0, 8}

IsLeap(y) == (y % 4 = 0 /\ y % 100 # 0) \/ y % 400 = 0

\* ECMAScript DayFromYear: the day number of 1 January of year y
DayFromYear(y) ==
  365 * (y - 1970) + ((y - 1969) \div 4) - ((y - 1901) \div 100)
    + ((y - 1601) \div 400)

\* days of year y before its month m0 (0-based)
DaysBeforeMonth(y, m0) ==
  LET cum == <<0, 31, 59, 90, 120, 151, 181, 212, 243, 273, 304, 334>>
  IN  cum[m0 + 1] + (IF m0 >= 2 /\ IsLeap(y) THEN 1 ELSE 0)

\* ECMAScript MakeDay(year, month, date): months and days out of range carry over
MakeDay(y, m0, d) ==
  LET ym == y + (m0 \div 12)
      mn == m0 % 12
  IN  DayFromYear(ym) + DaysBeforeMonth(ym, mn) + d - 1

\* new Date(y, m0, d).getTime(): local midnight; a year 0..99 means 1900 + year
DateLocal(y, m0, d, zone) ==
  LET yy == IF y >= 0 /\ y <= 99 THEN 1900 + y ELSE y
  IN  Num(MakeDay(yy, m0, d) * HoursPerDay - zone)

\* Date.UTC-like: midnight UTC
DateUTC(y, m0, d) == Num(MakeDay(y, m0, d) * HoursPerDay)

\* the ISO date-only forms YYYY, YYYY-MM and YYYY-MM-DD
IsIsoDate(s) ==
  \/ Len(s) = 4 /\ AllDigits(s)
  \/ /\ Len(s) = 7
     /\ AllDigits(SubSeq(s, 1, 4)) /\ s[5] = "-" /\ AllDigits(SubSeq(s, 6, 7))
  \/ /\ Len(s) = 10
     /\ AllDigits(SubSeq(s, 1, 4)) /\ s[5] = "-" /\ AllDigits(SubSeq(s, 6, 7))
     /\ s[8] = "-" /\ AllDigits(SubSeq(s, 9, 10))

\* an ISO date-only string is a UTC time (V8 takes any day 1..31)
ParseIso(s) ==
  LET y == DigitsValue(SubSeq(s, 1, 4))
      m == IF Len(s) >= 7 THEN DigitsValue(SubSeq(s, 6, 7)) ELSE 1
      d == IF Len(s) = 10 THEN DigitsValue(SubSeq(s, 9, 10)) ELSE 1
  IN  IF m \in 1..12 /\ d \in 1..31 THEN DateUTC(y, m - 1, d) ELSE NaN

\* V8's legacy parser skips a sign that comes before the first number
SkipSign(s) == IF s # <<>> /\ Head(s) \in {"-", "+"} THEN Tail(s) ELSE s

\* one to three runs of digits separated by one "-" or "/" each
IsLegacyNumeric(s) ==
  LET parts == SplitDate(SkipSign(s))
  IN  /\ Len(parts) \in 1..3
      /\ \A i \in DOMAIN parts :
           parts[i] # <<>> /\ AllDigits(parts[i]) /\ Len(parts[i]) <= 6

\* V8's legacy parser (DayComposer::Write) on such a string: missing components
\* are 1; the first component is the year unless it can be a day (1..31), then
\* the order is month, day, year; years 0..49 and 50..99 are 20xx and 19xx;
\* the result is a local time
ParseLegacy(s, zone) ==
  LET parts == SplitDate(SkipSign(s))
      comp == [i \in 1..3 |->
                 IF i <= Len(parts) THEN DigitsValue(parts[i]) ELSE 1]
      ymd == comp[1] \notin 1..31
      y0 == IF ymd THEN comp[1] ELSE comp[3]
      m == IF ymd THEN comp[2] ELSE comp[1]
      d == IF ymd THEN comp[3] ELSE comp[2]
      y == IF y0 \in 0..49 THEN y0 + 2000
           ELSE IF y0 \in 50..99 THEN y0 + 1900 ELSE y0
  IN  IF m \in 1..12 /\ d \in 1..31 /\ y <= 275760
      THEN Num(MakeDay(y, m - 1, d) * HoursPerDay - zone)
      ELSE NaN

\* new Date(s).getTime() and Date.parse(s); a string of another shape (the
\* model's inputs have no month names and no time of day) is not a date
DateParse(s, zone) ==
  IF IsIsoDate(s) THEN ParseIso(s)
  ELSE IF IsLegacyNumeric(s) THEN ParseLegacy(s, zone)
  ELSE NaN

----------------------------------------------------------------------------
(* parseDateSafe *)

\* /^\d{8}$/
DATE_REGEX_8DIGIT(s) == Len(s) = 8 /\ AllDigits(s)

\* /^(19|20)\d{2}(0[1-9]|1[0-2])$/
DATE_REGEX_6DIGIT(s) ==
  /\ Len(s) = 6 /\ AllDigits(s)
  /\ SubSeq(s, 1, 2) \in {<<"1", "9">>, <<"2", "0">>}
  /\ \/ s[5] = "0" /\ s[6] # "0"
     \/ s[5] = "1" /\ s[6] \in {"0", "1", "2"}

\* the fall-through of parseDateSafe: new Date(strVal).getTime()
ParseFallback(strVal, zone) == DateParse(strVal, zone)

parseDateSafe(value, zone) ==
  IF value = <<>> THEN Num(0)
  ELSE LET strVal == Trim(value)
       IN  IF DATE_REGEX_8DIGIT(strVal)
           THEN DateLocal(ParseInt(Substring(strVal, 0, 4)).v,
                          ParseInt(Substring(strVal, 4, 6)).v - 1,
                          ParseInt(Substring(strVal, 6, 8)).v, zone)
           ELSE IF DATE_REGEX_6DIGIT(strVal)
           THEN DateLocal(ParseInt(Substring(strVal, 0, 4)).v,
                          ParseInt(Substring(strVal, 4, 6)).v - 1, 1, zone)
           ELSE ParseFallback(strVal, zone)

----------------------------------------------------------------------------
(* Rows and cells (ExcelDataRow).  A row is its keys, in the order Object.keys
   gives them, and the cell of each key.  A cell is a scalar: its type tag t
   and its text s, which is String(value) for a string or a number. *)

StrCell(s) == [t |-> "string", s |-> s]

NumCell(n) == [t |-> "number", s |-> IntToString(n)]

NullCell == [t |-> "null", s |-> <<>>]

\* row[key] of a key the row does not have
Undefined == [t |-> "undefined", s |-> <<>>]

MkRow(keys, cells) ==
  [keys |-> keys, val |-> [k \in Range(keys) |-> cells[CHOOSE i \in DOMAIN keys : keys[i] = k]]]

HasKey(row, key) == key \in DOMAIN row.val

\* row[key]
Get(row, key) == IF HasKey(row, key) THEN row.val[key] ELSE Undefined

\* row[key] = cell: a new key goes last
Put(row, key, cell) ==
  IF HasKey(row, key)
  THEN [row EXCEPT !.val = [row.val EXCEPT ![key] = cell]]
  ELSE [keys |-> Append(row.keys, key),
        val |-> [k \in DOMAIN row.val \cup {key} |->
                   IF k = key THEN cell ELSE row.val[k]]]

\* String(value)
JsString(cell) ==
  CASE cell.t = "null" -> <<"n", "u", "l", "l">>
    [] cell.t = "undefined" -> <<"u", "n", "d", "e", "f", "i", "n", "e", "d">>
    [] OTHER -> cell.s

\* Array.prototype.slice(from, to) on a dataset, 0-based, to exclusive
Slice(seq, from, to) ==
  LET a == IF from < 0 THEN 0 ELSE from
      b == IF to > Len(seq) THEN Len(seq) ELSE to
  IN  IF a < b THEN SubSeq(seq, a + 1, b) ELSE <<>>

----------------------------------------------------------------------------
(* detectColumnType *)

UpperLetters ==
  <<"A", "B", "C", "D", "E", "F", "G", "H", "I", "J", "K", "L", "M",
    "N", "O", "P", "Q", "R", "S", "T", "U", "V", "W", "X", "Y", "Z">>

LowerLetters ==
  <<"a", "b", "c", "d", "e", "f", "g", "h", "i", "j", "k", "l", "m",
    "n", "o", "p", "q", "r", "s", "t", "u", "v", "w", "x", "y", "z">>

\* String.prototype.toLowerCase
ToLowerCase(s) ==
  [i \in DOMAIN s |->
     IF \E j \in DOMAIN UpperLetters : UpperLetters[j] = s[i]
     THEN LowerLetters[CHOOSE j \in DOMAIN UpperLetters : UpperLetters[j] = s[i]]
     ELSE s[i]]

\* a decimal mantissa: digits with at most one point and at least one digit
IsMantissa(m) ==
  /\ \A i \in DOMAIN m : m[i] \in Digit \cup {"."}
  /\ Cardinality({i \in DOMAIN m : m[i] = "."}) <= 1
  /\ \E i \in DOMAIN m : m[i] \in Digit

\* a StringNumericLiteral: blank, a signed decimal with an optional exponent,
\* a signed Infinity, or an unsigned 0x, 0o or 0b integer
IsNumericLiteral(s) ==
  LET t == Trim(s)
      u == IF t # <<>> /\ Head(t) \in {"+", "-"} THEN Tail(t) ELSE t
      e == {i \in DOMAIN u : u[i] \in {"e", "E"}}
      x == IF e = {} THEN <<>>
           ELSE SubSeq(u, (CHOOSE i \in e : \A j \in e : i <= j) + 1, Len(u))
      m == IF e = {} THEN u
           ELSE SubSeq(u, 1, (CHOOSE i \in e : \A j \in e : i <= j) - 1)
      xd == IF x # <<>> /\ Head(x) \in {"+", "-"} THEN Tail(x) ELSE x
      hex == Digit \cup {"a", "b", "c", "d", "e", "f", "A", "B", "C", "D", "E", "F"}
  IN  \/ t = <<>>
      \/ IsMantissa(m) /\ (e = {} \/ (xd # <<>> /\ AllDigits(xd)))
      \/ u = <<"I", "n", "f", "i", "n", "i", "t", "y">>
      \/ /\ Len(t) > 2 /\ t[1] = "0"
         /\ \/ t[2] \in {"x", "X"} /\ \A i \in 3..Len(t) : t[i] \in hex
            \/ t[2] \in {"o", "O"} /\ \A i \in 3..Len(t) : t[i] \in {"0", "1", "2", "3", "4", "5", "6", "7"}
            \/ t[2] \in {"b", "B"} /\ \A i \in 3..Len(t) : t[i] \in {"0", "1"}

\* isNaN(Number(val))
NumberIsNaN(cell) ==
  CASE cell.t = "string" -> ~IsNumericLiteral(cell.s)
    [] cell.t = "undefined" -> TRUE
    [] OTHER -> FALSE

\* 'id', 'no', 'code', '單號', '編號', '料號', '工號', '客代', '廠商', '品號', '規格'
stringKeywords_short ==
  { <<"i", "d">>, <<"n", "o">>, <<"c", "o", "d", "e">> }

stringKeywords ==
  { <<"i", "d">>, <<"n", "o">>, <<"c", "o", "d", "e">>, <<"U55AE", "U865F">>, <<"U7DE8", "U865F">>, <<"U6599", "U865F">>, <<"U5DE5", "U865F">>, <<"U5BA2", "U4EE3">>,
    <<"U5EE0", "U5546">>, <<"U54C1", "U865F">>, <<"U898F", "U683C">> }

maxSamples == 100

\* val === null || val === undefined
IsBlank_nullOnly(cell) == cell.t \in {"null", "undefined"}

\* val === null || val === undefined || val === ''
IsBlank(cell) ==
  cell.t \in {"null", "undefined"} \/ (cell.t = "string" /\ cell.s = <<>>)

\* the test that adds to numberCount
CountsAsNumber(cell) == ~NumberIsNaN(cell) /\ Trim(JsString(cell)) # <<>>

\* the tests that add to dateCount
CountsAsDate(cell, zone) ==
  LET strVal == Trim(JsString(cell))
  IN  \/ DATE_REGEX_8DIGIT(strVal) \/ DATE_REGEX_6DIGIT(strVal)
      \/ /\ ~DateParse(strVal, zone).nan
         /\ Includes(strVal, <<"-">>) \/ Includes(strVal, <<"/">>)

\* one turn of the loop, on row i: nothing once maxSamples values are counted
\* (the break), and nothing for a blank cell
ScanRow(rows, column, zone, i, acc) ==
  LET val == Get(rows[i], column)
  IN  IF acc.sampleCount >= maxSamples \/ IsBlank(val) THEN acc
      ELSE [sampleCount |-> acc.sampleCount + 1,
            numberCount |-> acc.numberCount
                              + (IF CountsAsNumber(val) THEN 1 ELSE 0),
            dateCount |-> acc.dateCount
                            + (IF CountsAsDate(val, zone) THEN 1 ELSE 0)]

\* the turns of the loop on the rows lo..hi in their order, given the counts
\* so far: the first half of the rows, then the second
RECURSIVE ScanRows(_, _, _, _, _, _)
ScanRows(rows, column, zone, lo, hi, acc) ==
  IF lo > hi THEN acc
  ELSE IF lo = hi THEN ScanRow(rows, column, zone, lo, acc)
  ELSE Bind(ScanRows(rows, column, zone, lo, (lo + hi) \div 2, acc),
            LAMBDA a : ScanRows(rows, column, zone, ((lo + hi) \div 2) + 1, hi, a))

\* the loop over the rows: the counts after rows i.., given the counts so far
ScanColumn(rows, column, zone, i, acc) ==
  ScanRows(rows, column, zone, i, Len(rows), acc)

\* the early return on an identifier-like column name
IsIdentifierColumn(column) ==
  \E kw \in stringKeywords : Includes(ToLowerCase(column), kw)

\* dateCount / sampleCount >= 0.8, numberCount / sampleCount >= 0.9
ClassifyCounts_atLeast(acc) ==
  IF acc.sampleCount > 0 /\ acc.dateCount * 10 >= 8 * acc.sampleCount THEN "date"
  ELSE IF acc.sampleCount > 0 /\ acc.numberCount * 10 >= 9 * acc.sampleCount
  THEN "number"
  ELSE "string"

\* dateCount / sampleCount > 0.8, numberCount / sampleCount > 0.9
ClassifyCounts(acc) ==
  IF acc.sampleCount > 0 /\ acc.dateCount * 10 > 8 * acc.sampleCount THEN "date"
  ELSE IF acc.sampleCount > 0 /\ acc.numberCount * 10 > 9 * acc.sampleCount
  THEN "number"
  ELSE "string"

\* detectColumnType(data, column) for a column name that is a string
detectColumnType(rows, column, zone) ==
  IF IsIdentifierColumn(column) THEN "string"
  ELSE ClassifyCounts(ScanColumn(rows, column, zone, 1,
         [sampleCount |-> 0, numberCount |-> 0, dateCount |-> 0]))

\* a call of detectColumnType with any JavaScript value as the column:
\* column.toLowerCase() throws a TypeError when column is undefined
detectColumnTypeCall(rows, column, zone) ==
  IF column.t = "undefined" THEN "TypeError"
  ELSE detectColumnType(rows, column.s, zone)

----------------------------------------------------------------------------
(* cleanAndEnrichData *)

\* a value in a boolean position
CellTruthy(cell) ==
  CASE cell.t = "string" -> cell.s # <<>>
    [] cell.t = "number" -> cell.s # <<"0">>
    [] cell.t = "boolean" -> cell.s = <<"t", "r", "u", "e">>
    [] OTHER -> FALSE

\* a column name in a boolean position (the result of headers.find)
ColFound(col) == col.t = "string" /\ col.s # <<>>

\* headers.find(h => P(h)): the first header that satisfies P, or undefined
FindHeader(headers, P(_)) ==
  IF \E i \in DOMAIN headers : P(headers[i])
  THEN StrCell(headers[CHOOSE i \in DOMAIN headers :
                         P(headers[i]) /\ \A j \in 1..(i - 1) : ~P(headers[j])])
  ELSE Undefined

\* '單據日期', '訂單日期', '開工日', 'Date', 'Order Date'
DocKeywords == { <<"U55AE", "U64DA", "U65E5", "U671F">>, <<"U8A02", "U55AE", "U65E5", "U671F">>, <<"U958B", "U5DE5", "U65E5">>, <<"D", "a", "t", "e">>, <<"O", "r", "d", "e", "r", " ", "D", "a", "t", "e">> }

\* '預計', '預交', 'Planned', 'Target', 'Delivery'
PredictedKeywords == { <<"U9810", "U8A08">>, <<"U9810", "U4EA4">>, <<"P", "l", "a", "n", "n", "e", "d">>, <<"T", "a", "r", "g", "e", "t">>, <<"D", "e", "l", "i", "v", "e", "r", "y">> }

\* '實際', '完工日', 'Actual', 'Finish'
ActualKeywords == { <<"U5BE6", "U969B">>, <<"U5B8C", "U5DE5", "U65E5">>, <<"A", "c", "t", "u", "a", "l">>, <<"F", "i", "n", "i", "s", "h">> }

\* '差異', 'Diff'
DiffKeywords == { <<"U5DEE", "U7570">>, <<"D", "i", "f", "f">> }

IncludesAny(h, keywords) == \E k \in keywords : Includes(h, k)

docDateCol(headers) == FindHeader(headers, LAMBDA h : IncludesAny(h, DocKeywords))

predictedCol(headers) ==
  FindHeader(headers, LAMBDA h :
    /\ IncludesAny(h, PredictedKeywords)
    /\ Includes(h, <<"U65E5">>) \/ Includes(h, <<"D", "a", "t", "e">>))

actualCol(headers) == FindHeader(headers, LAMBDA h : IncludesAny(h, ActualKeywords))

diffCol(headers) == FindHeader(headers, LAMBDA h : IncludesAny(h, DiffKeywords))

\* the roles with the last matching header of each
Roles_last(headers) ==
  [doc |-> docDateCol([i \in DOMAIN headers |-> headers[Len(headers) + 1 - i]]),
   predicted |-> predictedCol([i \in DOMAIN headers |-> headers[Len(headers) + 1 - i]]),
   actual |-> actualCol([i \in DOMAIN headers |-> headers[Len(headers) + 1 - i]]),
   diff |-> diffCol([i \in DOMAIN headers |-> headers[Len(headers) + 1 - i]])]

\* the roles found in the headers
Roles(headers) ==
  [doc |-> docDateCol(headers), predicted |-> predictedCol(headers),
   actual |-> actualCol(headers), diff |-> diffCol(headers)]

\* String(row[key] || '')
TextOrEmpty(row, key) ==
  IF CellTruthy(Get(row, key)) THEN JsString(Get(row, key)) ELSE <<>>

\* the year read from a cell text: [isDate, year]
ReadYear(val) ==
  IF Len(val) = 8 /\ AllDigits(val)
  THEN [isDate |-> TRUE, year |-> ParseInt(Substring(val, 0, 4))]
  ELSE IF (Includes(val, <<"/">>) \/ Includes(val, <<"-">>))
          /\ Len(SplitDate(val)) >= 3
  THEN [isDate |-> TRUE, year |-> ParseInt(SplitDate(val)[1])]
  ELSE [isDate |-> FALSE, year |-> Num(0)]

\* isDate && year > 0 && year < 2000
NeedsYearFix(val) ==
  /\ val # <<>>
  /\ ReadYear(val).isDate
  /\ JsGt(ReadYear(val).year, Num(0))
  /\ JsLt(ReadYear(val).year, Num(2000))

\* the year written by the year fix: '2025', or the year of the row's
\* document date
correctYear(row, doc) ==
  IF ColFound(doc) /\ CellTruthy(Get(row, doc.s))
  THEN LET docVal == JsString(Get(row, doc.s))
       IN  IF Len(docVal) = 8 THEN Substring(docVal, 0, 4)
           ELSE IF Includes(docVal, <<"/">>) THEN FirstPart(docVal, "/")
           ELSE IF Includes(docVal, <<"-">>) THEN FirstPart(docVal, "-")
           ELSE <<"2", "0", "2", "5">>
  ELSE <<"2", "0", "2", "5">>

\* the text with its year replaced
ReplaceYear(val, year) ==
  IF Len(val) = 8 THEN year \o SubstringFrom(val, 4)
  ELSE JoinSlash([SplitDate(val) EXCEPT ![1] = year])

\* 1. Universal Year Fix, for one key of one row
YearFixCell(row, key, doc) ==
  LET val == TextOrEmpty(row, key)
  IN  IF NeedsYearFix(val)
      THEN Put(row, key, StrCell(ReplaceYear(val, correctYear(row, doc))))
      ELSE row

\* the loop over the headers, from header i on
RECURSIVE YearFix(_, _, _, _)
YearFix(row, headers, doc, i) ==
  IF i > Len(headers) THEN row
  ELSE YearFix(YearFixCell(row, headers[i], doc), headers, doc, i + 1)

\* the year taken from the document date by the logic fix
docYear(docVal) ==
  IF Len(docVal) = 8 THEN Substring(docVal, 0, 4) ELSE SplitDate(docVal)[1]

\* 2. Logic Fix: Predicted Date < Document Date
LogicFix(row, doc, predicted, zone) ==
  IF /\ ColFound(doc) /\ ColFound(predicted)
     /\ CellTruthy(Get(row, doc.s)) /\ CellTruthy(Get(row, predicted.s))
  THEN LET d1 == parseDateSafe(JsString(Get(row, doc.s)), zone)
           d2 == parseDateSafe(JsString(Get(row, predicted.s)), zone)
       IN  IF JsLt(d2, d1)
           THEN Put(row, predicted.s,
                    StrCell(ReplaceYear(JsString(Get(row, predicted.s)),
                                        docYear(JsString(Get(row, doc.s))))))
           ELSE row
  ELSE row

\* Math.floor(diffTime / (1000 * 60 * 60 * 24))
CeilDays_floor(diffTime) == diffTime \div HoursPerDay

\* Math.ceil(diffTime / (1000 * 60 * 60 * 24))
CeilDays(diffTime) == 0 - ((0 - diffTime) \div HoursPerDay)

\* the key the day difference is written under
DiffTarget_literal(diff) == <<"D", "i", "f", "f">>

DiffTarget(diff) == diff.s

\* 3. Recalculate Diff Days
DiffFix(row, predicted, actual, diff, zone) ==
  IF /\ ColFound(predicted) /\ ColFound(actual) /\ ColFound(diff)
     /\ CellTruthy(Get(row, predicted.s)) /\ CellTruthy(Get(row, actual.s))
  THEN LET dPred == parseDateSafe(JsString(Get(row, predicted.s)), zone)
           dAct == parseDateSafe(JsString(Get(row, actual.s)), zone)
       IN  IF JsGt(dPred, Num(0)) /\ JsGt(dAct, Num(0))
           THEN Put(row, DiffTarget(diff), NumCell(CeilDays(dAct.v - dPred.v)))
           ELSE row
  ELSE row

\* the body of the loop over the rows
CleanRow(row, headers, zone) ==
  LET r == Roles(headers)
      r1 == YearFix(row, headers, r.doc, 1)
      r2 == LogicFix(r1, r.doc, r.predicted, zone)
  IN  DiffFix(r2, r.predicted, r.actual, r.diff, zone)

\* cleanAndEnrichData(data): the rows are rewritten in place and data returned
cleanAndEnrichData(rows, zone) ==
  IF rows = <<>> THEN rows
  ELSE [i \in DOMAIN rows |-> CleanRow(rows[i], rows[1].keys, zone)]

----------------------------------------------------------------------------
(* getSmartSample *)

\* Math.floor(limit * 0.2): for an integer limit, the quotient of limit by 5
headCount(limit) == limit \div 5

tailCount(limit) == limit \div 5

randomCount(limit) == limit - headCount(limit) - tailCount(limit)

middleStart_zero(limit) == 0

middleStart(limit) == headCount(limit)

middleEnd(rows, limit) == Len(rows) - tailCount(limit)

\* the early return: data.length <= limit
FitsLimit_strict(rows, limit) == Len(rows) < limit

FitsLimit(rows, limit) == Len(rows) <= limit

\* the loop of draws: Math.floor(Math.random() * (middleEnd - middleStart)) + middleStart;
\* rnd[i] is the i-th value of Math.floor(Math.random() * (middleEnd - middleStart))
randomSamples_once(rows, limit, rnd) ==
  IF middleEnd(rows, limit) > middleStart(limit) /\ randomCount(limit) > 0
  THEN <<rows[rnd[1] + middleStart(limit) + 1]>>
  ELSE <<>>

randomSamples(rows, limit, rnd) ==
  IF middleEnd(rows, limit) > middleStart(limit)
  THEN [i \in 1..randomCount(limit) |-> rows[rnd[i] + middleStart(limit) + 1]]
  ELSE <<>>

getSmartSample(rows, limit, rnd) ==
  IF FitsLimit(rows, limit) THEN rows
  ELSE Slice(rows, 0, headCount(limit))
         \o randomSamples(rows, limit, rnd)
         \o Slice(rows, Len(rows) - tailCount(limit), Len(rows))

\* the outcomes of the draws of one call
RandomDraws(rows, limit) ==
  IF FitsLimit(rows, limit) \/ middleEnd(rows, limit) <= middleStart(limit)
  THEN {<<>>}
  ELSE [1..randomCount(limit) -> 0..(middleEnd(rows, limit) - middleStart(limit) - 1)]

----------------------------------------------------------------------------
(* aggregateData.  The sums and averages of the groups are exact fractions
   [n, d] where the code has doubles. *)

Abs(n) == IF n < 0 THEN 0 - n ELSE n

RECURSIVE GCD(_, _)
GCD(a, b) == IF b = 0 THEN a ELSE GCD(b, a % b)

RECURSIVE Pow10(_)
Pow10(k) == IF k = 0 THEN 1 ELSE 10 * Pow10(k - 1)

\* the number n / d, for d > 0; with d = 0, the infinity of the sign of n
Frac(n, d) ==
  LET g == GCD(Abs(n), d) IN [nan |-> FALSE, n |-> n \div g, d |-> d \div g]

FracNaN == [nan |-> TRUE, n |-> 0, d |-> 1]

\* Infinity and -Infinity
FracInf(neg) == [nan |-> FALSE, n |-> IF neg THEN 0 - 1 ELSE 1, d |-> 0]

\* a + b: NaN when one of them is NaN and for Infinity + -Infinity
FracAdd(a, b) ==
  IF a.nan \/ b.nan THEN FracNaN
  ELSE IF a.d = 0 /\ b.d = 0 THEN IF a.n = b.n THEN a ELSE FracNaN
  ELSE Frac(a.n * b.d + b.n * a.d, a.d * b.d)

\* the sign of a - b
FracCmp(a, b) ==
  LET x == IF a.d = 0 /\ b.d = 0 THEN a.n - b.n ELSE a.n * b.d - b.n * a.d
  IN  IF x < 0 THEN 0 - 1 ELSE IF x > 0 THEN 1 ELSE 0

\* parseFloat(s): leading blanks, a sign, then the longest prefix that is a
\* decimal literal (Infinity, or digits, a fraction, an exponent); NaN when
\* there is none.
IsNegative(t) == t # <<>> /\ Head(t) = "-"

Unsigned(t) == IF t # <<>> /\ Head(t) \in {"-", "+"} THEN Tail(t) ELSE t

AfterDigits(u) == SubSeq(u, Len(DigitPrefix(u)) + 1, Len(u))

\* the exponent read after the mantissa: 0 when there is none
Exponent(r) ==
  IF r # <<>> /\ Head(r) \in {"e", "E"} /\ DigitPrefix(Unsigned(Tail(r))) # <<>>
  THEN IF IsNegative(Tail(r)) THEN 0 - DigitsValue(DigitPrefix(Unsigned(Tail(r))))
       ELSE DigitsValue(DigitPrefix(Unsigned(Tail(r))))
  ELSE 0

\* m with fl fraction digits, times ten to the exp
FloatValue(m, fl, exp) ==
  IF exp < 0 THEN Frac(m, Pow10(fl - exp)) ELSE Frac(m * Pow10(exp), Pow10(fl))

\* the number of the integer digits ip, the fraction digits fp and the rest r
FloatOf(neg, ip, fp, r) ==
  IF ip = <<>> /\ fp = <<>> THEN FracNaN
  ELSE FloatValue(IF neg THEN 0 - DigitsValue(ip \o fp) ELSE DigitsValue(ip \o fp),
                  Len(fp), Exponent(r))

ParseUnsigned(neg, u) ==
  IF Len(u) >= 8 /\ SubSeq(u, 1, 8) = <<"I", "n", "f", "i", "n", "i", "t", "y">>
  THEN FracInf(neg)
  ELSE IF AfterDigits(u) # <<>> /\ Head(AfterDigits(u)) = "."
  THEN FloatOf(neg, DigitPrefix(u), DigitPrefix(Tail(AfterDigits(u))),
               AfterDigits(Tail(AfterDigits(u))))
  ELSE FloatOf(neg, DigitPrefix(u), <<>>, AfterDigits(u))

ParseFloat(s) == ParseUnsigned(IsNegative(TrimStart(s)), Unsigned(TrimStart(s)))

\* Number(s) of a string: 0 for a blank string, the value of a decimal
\* literal, NaN for a string that is no numeric literal.  The texts of the
\* model hold no hexadecimal, octal or binary literal.
StringToNumber(s) ==
  IF Trim(s) = <<>> THEN Frac(0, 1)
  ELSE IF IsNumericLiteral(s) THEN ParseFloat(Trim(s))
  ELSE FracNaN

\* 'rate', 'percent', 'avg', 'yield', '率', '平均', '占比', '達成'
AverageKeywords ==
  { <<"r", "a", "t", "e">>, <<"p", "e", "r", "c", "e", "n", "t">>, <<"a", "v", "g">>, <<"y", "i", "e", "l", "d">>, <<"U7387">>, <<"U5E73", "U5747">>, <<"U5360", "U6BD4">>, <<"U9054", "U6210">> }

\* 'id', 'no', 'code', '號', '單', '代碼'
CountKeywords == { <<"i", "d">>, <<"n", "o">>, <<"c", "o", "d", "e">>, <<"U865F">>, <<"U55AE">>, <<"U4EE3", "U78BC">> }

\* data.find(r => r[dataKey] !== null && r[dataKey] !== undefined): the index
\* of the row found, 0 when there is none
firstValid(rows, dataKey) ==
  LET valid == {i \in DOMAIN rows : Get(rows[i], dataKey).t \notin {"null", "undefined"}}
  IN  IF valid = {} THEN 0 ELSE CHOOSE i \in valid : \A j \in valid : i <= j

\* a mode in which the count keywords are tested before the average keywords
mode_countFirst(rows, dataKey) ==
  IF IncludesAny(ToLowerCase(dataKey), CountKeywords) THEN "count"
  ELSE IF IncludesAny(ToLowerCase(dataKey), AverageKeywords) THEN "average"
  ELSE "sum"

\* the reduction mode of a call
mode(rows, dataKey) ==
  LET keyLower == ToLowerCase(dataKey)
      first == firstValid(rows, dataKey)
  IN  IF IncludesAny(keyLower, AverageKeywords) THEN "average"
      ELSE IF IncludesAny(keyLower, CountKeywords) THEN "count"
      ELSE IF /\ first # 0
              /\ Get(rows[first], dataKey).t = "string"
              /\ NumberIsNaN(Get(rows[first], dataKey))
      THEN "count"
      ELSE "sum"

\* what a row adds to the sum of its group
numVal(row, dataKey, m) ==
  IF m = "count" THEN Frac(1, 1)
  ELSE LET p == ParseFloat(JsString(Get(row, dataKey)))
       IN  IF p.nan THEN Frac(0, 1) ELSE p

\* map.set / the update of the entry of key: a new key goes last
Accumulate(map, key, v) ==
  IF \E k \in DOMAIN map : map[k].name = key
  THEN [k \in DOMAIN map |->
          IF map[k].name = key
          THEN [name |-> key, sum |-> FracAdd(map[k].sum, v), count |-> map[k].count + 1]
          ELSE map[k]]
  ELSE Append(map, [name |-> key, sum |-> v, count |-> 1])

\* the loop over the rows, from row i on: the entries of the map in the order
\* of their insertion
RECURSIVE GroupRows(_, _, _, _, _, _)
GroupRows(rows, xAxisKey, dataKey, m, i, map) ==
  IF i > Len(rows) THEN map
  ELSE LET xValue == Get(rows[i], xAxisKey)
           next == Accumulate(map, JsString(xValue), numVal(rows[i], dataKey, m))
       IN  IF xValue.t \in {"undefined", "null"}
           THEN GroupRows(rows, xAxisKey, dataKey, m, i + 1, map)
           ELSE Bind(next, LAMBDA n : GroupRows(rows, xAxisKey, dataKey, m, i + 1, n))

\* the points with the sum as the value in every mode
Finalize_sum(map, m) ==
  [k \in DOMAIN map |-> [name |-> map[k].name, value |-> map[k].sum]]

\* the point of a group; its properties [xAxisKey] and [dataKey] are copies
\* of name and value
Finalize(map, m) ==
  [k \in DOMAIN map |->
     [name |-> map[k].name,
      value |-> IF m = "average" /\ map[k].count > 0
                THEN Frac(map[k].sum.n, map[k].sum.d * map[k].count)
                ELSE map[k].sum]]

\* the characters of the model, in the order of their code units
CharOrder ==
  << " ", "+", "-", ".", "/", "0", "1", "2", "3", "4", "5", "6", "7", "8", "9",
     "A", "B", "C", "D", "E", "F", "G", "H", "I", "J", "K", "L", "M", "N", "O",
     "P", "Q", "R", "S", "T", "U", "V", "W", "X", "Y", "Z",
     "a", "b", "c", "d", "e", "f", "g", "h", "i", "j", "k", "l", "m", "n", "o",
     "p", "q", "r", "s", "t", "u", "v", "w", "x", "y", "z",
     "U65E5", "U671F" >>

CharRank(c) == CHOOSE i \in DOMAIN CharOrder : CharOrder[i] = c

\* a < b on strings: the order of the code units
RECURSIVE StrLt(_, _)
StrLt(a, b) ==
  IF b = <<>> THEN FALSE
  ELSE IF a = <<>> THEN TRUE
  ELSE IF Head(a) = Head(b) THEN StrLt(Tail(a), Tail(b))
  ELSE CharRank(Head(a)) < CharRank(Head(b))

\* milliseconds in an hour: a time value is compared with the number of a
\* string in the unit of the code
MsPerHour == 3600000

\* parseDateSafe(key) || key: the time value when it is neither 0 nor NaN,
\* the string otherwise
SortKey(name, zone) ==
  LET p == parseDateSafe(name, zone)
  IN  IF Truthy(p) THEN [time |-> TRUE, v |-> p.v, s |-> <<>>]
      ELSE [time |-> FALSE, v |-> 0, s |-> name]

\* a < b on two sort keys: strings compare as strings, a time value and a
\* string compare as numbers
KeyLt(a, b) ==
  IF a.time /\ b.time THEN a.v < b.v
  ELSE IF ~a.time /\ ~b.time THEN StrLt(a.s, b.s)
  ELSE IF a.time
  THEN LET q == StringToNumber(b.s)
       IN  ~q.nan /\ a.v < 0 - ((0 - q.n) \div (q.d * MsPerHour))
  ELSE LET q == StringToNumber(a.s)
       IN  ~q.nan /\ q.n \div (q.d * MsPerHour) < b.v

KeyGt(a, b) == KeyLt(b, a)

\* the comparator of the date branch on the points i and j: dir = 1 is the
\* first sort (latest first), dir = -1 the second (earliest first)
DateOrder(points, zone, dir) ==
  Bind([i \in DOMAIN points |-> SortKey(points[i].name, zone)],
       LAMBDA keys : [i \in DOMAIN points |-> [j \in DOMAIN points |->
         IF KeyGt(keys[i], keys[j]) THEN 0 - dir
         ELSE IF KeyLt(keys[i], keys[j]) THEN dir
         ELSE 0]])

\* (a, b) => a.value - b.value
ValueOrder_ascending(points) ==
  [i \in DOMAIN points |-> [j \in DOMAIN points |->
     FracCmp(points[i].value, points[j].value)]]

\* (a, b) => b.value - a.value on the points i and j
ValueOrder(points) ==
  [i \in DOMAIN points |-> [j \in DOMAIN points |->
     FracCmp(points[j].value, points[i].value)]]

\* Array.prototype.sort in V8 on fewer than 64 elements: the first run is
\* found (and reversed when it descends), then every later element is put
\* in its place by a binary search.  a is the sequence of the indices of the
\* elements, c[i][j] the sign of comparefn(element i, element j).
RECURSIVE CountRun(_, _, _, _)
CountRun(a, c, descending, runLength) ==
  IF runLength = Len(a) THEN runLength
  ELSE LET order == c[a[runLength + 1]][a[runLength]]
       IN  IF (descending /\ order >= 0) \/ (~descending /\ order < 0)
           THEN runLength
           ELSE CountRun(a, c, descending, runLength + 1)

Reverse(a) == [i \in DOMAIN a |-> a[Len(a) + 1 - i]]

RECURSIVE BinarySearch(_, _, _, _, _)
BinarySearch(a, c, pivot, left, right) ==
  IF left >= right THEN left
  ELSE LET mid == left + ((right - left) \div 2)
       IN  IF c[pivot][a[mid + 1]] < 0
           THEN BinarySearch(a, c, pivot, left, mid)
           ELSE BinarySearch(a, c, pivot, mid + 1, right)

RECURSIVE BinaryInsertionSort(_, _, _)
BinaryInsertionSort(a, c, start) ==
  IF start >= Len(a) THEN a
  ELSE LET pivot == a[start + 1]
           left == BinarySearch(a, c, pivot, 0, start)
           moved == SubSeq(a, 1, left) \o <<pivot>> \o SubSeq(a, left + 1, start)
                      \o SubSeq(a, start + 2, Len(a))
       IN  Bind(moved, LAMBDA b : BinaryInsertionSort(b, c, start + 1))

\* the indices of n elements in their order after the sort
SortIndices(n, c) ==
  LET a == [i \in 1..n |-> i]
      descending == c[2][1] < 0
      runLength == CountRun(a, c, descending, 2)
      run == IF descending
             THEN Reverse(SubSeq(a, 1, runLength)) \o SubSeq(a, runLength + 1, Len(a))
             ELSE a
  IN  IF n < 2 THEN a
      ELSE Bind(runLength, LAMBDA k : Bind(run, LAMBDA r : BinaryInsertionSort(r, c, k)))

ArraySort(points, c) ==
  Bind(c, LAMBDA cv :
    Bind(SortIndices(Len(points), cv), LAMBDA sorted :
      [k \in DOMAIN points |-> points[sorted[k]]]))

\* the number of points kept
TopN == 12

\* .slice(0, 12)
TakeTop_all(points) == points

TakeTop(points) == Slice(points, 0, TopN)

\* xColType === 'date' || the name includes 'date' or '日'
IsDateLike(rows, xAxisKey, zone) ==
  \/ detectColumnType(Slice(rows, 0, 20), xAxisKey, zone) = "date"
  \/ Includes(ToLowerCase(xAxisKey), <<"d", "a", "t", "e">>)
  \/ Includes(ToLowerCase(xAxisKey), <<"U65E5">>)

\* the points before they are ordered
result(rows, xAxisKey, dataKey) ==
  Bind(mode(rows, dataKey), LAMBDA m :
    Bind(GroupRows(rows, xAxisKey, dataKey, m, 1, <<>>), LAMBDA map :
      Finalize(map, m)))

\* aggregateData(data, xAxisKey, dataKey)
aggregateData(rows, xAxisKey, dataKey, zone) ==
  Bind(result(rows, xAxisKey, dataKey), LAMBDA points :
    IF IsDateLike(rows, xAxisKey, zone)
    THEN Bind(TakeTop(ArraySort(points, DateOrder(points, zone, 1))),
              LAMBDA latest : ArraySort(latest, DateOrder(latest, zone, 0 - 1)))
    ELSE TakeTop(ArraySort(points, ValueOrder(points))))

----------------------------------------------------------------------------
(* getDatasetStats *)

\* Math.round(q * 100) / 100
\* a rounding that cuts the third decimal off
Round2_floor(q) ==
  IF q.nan \/ q.d = 0 THEN q ELSE Frac((100 * q.n) \div q.d, 100)

Round2(q) ==
  IF q.nan \/ q.d = 0 THEN q ELSE Frac((200 * q.n + q.d) \div (2 * q.d), 100)

\* h.toLowerCase().includes('date') || h.includes('日期') || h.includes('時間')
IsDateHeader(h) ==
  \/ Includes(ToLowerCase(h), <<"d", "a", "t", "e">>)
  \/ Includes(h, <<"U65E5", "U671F">>)
  \/ Includes(h, <<"U6642", "U9593">>)

dateCol(headers) == FindHeader(headers, LAMBDA h : IsDateHeader(h))

\* the headers classified 'number' on the first 50 rows
numericCols(rows, zone) ==
  SelectSeq(rows[1].keys,
            LAMBDA h : detectColumnType(Slice(rows, 0, 50), h, zone) = "number")

\* { sum: 0, avg: 0, min: Infinity, max: -Infinity }
StatSeed ==
  [sum |-> Frac(0, 1), min |-> FracInf(FALSE), max |-> FracInf(TRUE)]

\* the body of the loop over the numeric columns, for one value
StatStep(s, val) ==
  IF val.nan THEN s
  ELSE [sum |-> FracAdd(s.sum, val),
        min |-> IF FracCmp(val, s.min) < 0 THEN val ELSE s.min,
        max |-> IF FracCmp(val, s.max) > 0 THEN val ELSE s.max]

\* the loop over the rows for one numeric column, from row i on
RECURSIVE StatLoop(_, _, _, _)
StatLoop(rows, col, i, s) ==
  IF i > Len(rows) THEN s
  ELSE Bind(StatStep(s, ParseFloat(JsString(Get(rows[i], col)))),
            LAMBDA n : StatLoop(rows, col, i + 1, n))

\* the last loop: the seeds reset to 0, the average and the rounding
StatFinish(s, length) ==
  [sum |-> Round2(s.sum),
   avg |-> Round2(IF s.sum.nan THEN FracNaN ELSE Frac(s.sum.n, s.sum.d * length)),
   min |-> IF s.min = FracInf(FALSE) THEN Frac(0, 1) ELSE s.min,
   max |-> IF s.max = FracInf(TRUE) THEN Frac(0, 1) ELSE s.max]

\* stats.numericStats
numericStats(rows, zone) ==
  Bind(numericCols(rows, zone), LAMBDA cols :
    [col \in Range(cols) |->
       Bind(StatLoop(rows, col, 1, StatSeed), LAMBDA s : StatFinish(s, Len(rows)))])

\* minDate = Infinity, maxDate = -Infinity
DateSeed == [seen |-> FALSE, min |-> 0, max |-> 0]

\* the body of the loop over the rows for the date column
DateStep(d, ts) ==
  IF JsGt(ts, Num(0))
  THEN [seen |-> TRUE,
        min |-> IF ~d.seen \/ ts.v < d.min THEN ts.v ELSE d.min,
        max |-> IF ~d.seen \/ ts.v > d.max THEN ts.v ELSE d.max]
  ELSE d

RECURSIVE DateLoop(_, _, _, _, _)
DateLoop(rows, col, zone, i, d) ==
  IF i > Len(rows) THEN d
  ELSE Bind(DateStep(d, parseDateSafe(JsString(Get(rows[i], col)), zone)),
            LAMBDA n : DateLoop(rows, col, zone, i + 1, n))

\* new Date(ts).toLocaleDateString(): the local day of the time value
ToLocaleDateString(ts, zone) ==
  [empty |-> FALSE, day |-> (ts + zone) \div HoursPerDay]

\* the empty string of dateRange.start and dateRange.end
NoDate == [empty |-> TRUE, day |-> 0]

\* { start: '', end: '', column: '' }
EmptyRange == [start |-> NoDate, end |-> NoDate, column |-> <<>>]

\* stats.dateRange
dateRange(rows, zone) ==
  IF ~ColFound(dateCol(rows[1].keys)) THEN EmptyRange
  ELSE Bind(DateLoop(rows, dateCol(rows[1].keys).s, zone, 1, DateSeed), LAMBDA d :
         IF d.seen
         THEN [start |-> ToLocaleDateString(d.min, zone),
               end |-> ToLocaleDateString(d.max, zone),
               column |-> dateCol(rows[1].keys).s]
         ELSE EmptyRange)

\* getDatasetStats(data)
getDatasetStats(rows, zone) ==
  IF Len(rows) = 0
  THEN [rowCount |-> 0, dateRange |-> EmptyRange, numericStats |-> <<>>]
  ELSE [rowCount |-> Len(rows), dateRange |-> dateRange(rows, zone),
        numericStats |-> numericStats(rows, zone)]

\* no call of getDatasetStats yet
NoStats == [rowCount |-> 0 - 1, dateRange |-> EmptyRange, numericStats |-> <<>>]

----------------------------------------------------------------------------
(* Specification of getSmartSample: one call on a dataset of distinct rows *)

MaxSampleRows == 11

\* limits with a head and tail of 0, 0, 1 and 2 rows
SampleLimits == {1, 2, 5, 10}

SampleKey == <<"k">>

SampleData(n) == [i \in 1..n |-> MkRow(<<SampleKey>>, <<NumCell(i)>>)]

InitSample ==
  /\ tz = 0
  /\ \E n \in 0..MaxSampleRows : data = SampleData(n)
  /\ parseArgs = <<>> /\ parseRes = <<>>
  /\ clsCol = Undefined /\ clsOut = NoType
  /\ smpLimit = 0 /\ smpOut = NoResult
  /\ cleanRuns = 0 /\ cleanIn = <<>> /\ cleanOnce = <<>>
  /\ aggX = Undefined /\ aggY = Undefined /\ aggOut = NoResult
  /\ stats = NoStats
  /\ AppIdle /\ CallIdle

Sample ==
  /\ smpLimit = 0
  /\ \E limit \in SampleLimits :
       \E rnd \in RandomDraws(data, limit) :
         /\ smpLimit' = limit
         /\ smpOut' = getSmartSample(data, limit, rnd)
  /\ UNCHANGED <<tz, data, parseArgs, parseRes, clsCol, clsOut, cleanRuns,
                 cleanIn, cleanOnce, aggX, aggY, aggOut, stats>>
  /\ UNCHANGED <<appVars, callVars>>

NextSample == Sample

SpecSample == InitSample /\ [][NextSample]_vars

----------------------------------------------------------------------------
(* Claims on getSmartSample *)

Min(a, b) == IF a < b THEN a ELSE b

\* the position in data of a row of the sample (rows of SampleData are distinct)
IndexOf(row) == CHOOSE i \in DOMAIN data : data[i] = row

\* C2: sample(D, limit) has exactly min(|D|, limit) rows, whatever the draws.
C2_SampleLength ==
  smpLimit > 0 => Len(smpOut) = Min(Len(data), smpLimit)

C2_Witness ==
  smpLimit > 0 /\ Len(data) > smpLimit /\ Len(smpOut) = smpLimit

\* C3: if |D| <= limit the sample is D itself, same rows in the same order.
C3_SmallUnchanged ==
  (smpLimit > 0 /\ Len(data) <= smpLimit) => smpOut = data

C3_Witness ==
  smpLimit > 0 /\ Len(data) = smpLimit /\ Len(data) >= 5 /\ smpOut = data

\* C4: if |D| > limit, with h = floor(0.2 * limit): the first h rows of the
\* sample are rows 0..h-1 of D, the last h rows are the last h rows of D, and
\* every row between them is a row of D of index i with h <= i < |D| - h.
C4_HeadMiddleTail ==
  (smpLimit > 0 /\ Len(data) > smpLimit) =>
    LET h == smpLimit \div 5
        n == Len(smpOut)
    IN  /\ n >= 2 * h
        /\ \A i \in 1..h : smpOut[i] = data[i]
        /\ \A i \in 1..h : smpOut[n - h + i] = data[Len(data) - h + i]
        /\ \A i \in (h + 1)..(n - h) :
             /\ smpOut[i] \in Range(data)
             /\ IndexOf(smpOut[i]) - 1 >= h
             /\ IndexOf(smpOut[i]) - 1 < Len(data) - h

\* a sample with two head rows, two tail rows and, between them, draws that
\* hit both ends of the middle region
C4_Witness ==
  /\ smpLimit = 10 /\ Len(data) > 10 /\ Len(smpOut) = 10
  /\ smpOut[3] = data[3]
  /\ smpOut[8] = data[Len(data) - 2]

----------------------------------------------------------------------------
(* Specification of detectColumnType: one call on a dataset whose rows give
   every column the same cell *)

MaxClsRows == 3

BoolCell(b) == [t |-> "boolean", s |-> IF b THEN <<"t", "r", "u", "e">> ELSE <<"f", "a", "l", "s", "e">>]

\* column names: three with an identifier keyword in them (one in capitals,
\* one inside another word), two plain ones, and the empty name
ClsNames ==
  { <<"U8A02", "U55AE", "U7DE8", "U865F">>, <<"O", "r", "d", "e", "r", " ", "I", "D">>, <<"N", "o", "t", "e", "s">>, <<"A", "m", "o", "u", "n", "t">>, <<"S", "h", "i", "p">>, <<>> }

\* the values of the column argument: a name, or undefined
ClsColumns == {StrCell(n) : n \in ClsNames} \cup {Undefined}

ClsCells ==
  { NumCell(42), StrCell(<<"2", "0", "2", "5", "0", "6", "1", "5">>), StrCell(<<"2", "0", "2", "5", "/", "0", "6", "/", "1", "5">>), StrCell(<<"a", "b", "c">>),
    StrCell(<<>>), NullCell, BoolCell(TRUE) }

ClsKeys == << <<"U8A02", "U55AE", "U7DE8", "U865F">>, <<"O", "r", "d", "e", "r", " ", "I", "D">>, <<"N", "o", "t", "e", "s">>, <<"A", "m", "o", "u", "n", "t">>, <<"S", "h", "i", "p">> >>

\* the rows of the datasets: every column holds the cell, or the row has no key
ClsRows ==
  {MkRow(ClsKeys, [i \in DOMAIN ClsKeys |-> c]) : c \in ClsCells}
    \cup {MkRow(<<>>, <<>>)}

SeqsUpTo(S, n) == UNION {[1..k -> S] : k \in 0..n}

MaxClsCount == 10

ClsAmount == <<"A", "m", "o", "u", "n", "t">>

ClsColumnOf(cells) == [i \in DOMAIN cells |-> MkRow(<<ClsAmount>>, <<cells[i]>>)]

Repeat(c, n) == [i \in 1..n |-> c]

\* columns of up to MaxClsCount values: a numbers, b dates of eight digits
\* (numbers as well), c dates with slashes, d texts
ClsCounted ==
  { ClsColumnOf(Repeat(NumCell(42), a) \o Repeat(StrCell(<<"2", "0", "2", "5", "0", "6", "1", "5">>), b)
                  \o Repeat(StrCell(<<"2", "0", "2", "5", "/", "0", "6", "/", "1", "5">>), c) \o Repeat(StrCell(<<"a", "b", "c">>), d)) :
      a \in 0..MaxClsCount, b \in 0..MaxClsCount, c \in 0..MaxClsCount,
      d \in 0..MaxClsCount }

\* columns of more than maxSamples values: maxSamples values of which one in
\* twenty is a text, with or without two blank cells in their middle, and
\* then no more value, one text, or many texts
ClsLong ==
  { ClsColumnOf(SubSeq(first, 1, maxSamples \div 2) \o blanks
                  \o SubSeq(first, maxSamples \div 2 + 1, maxSamples)
                  \o Repeat(StrCell(<<"a", "b", "c">>), more)) :
      first \in { [i \in 1..maxSamples |-> IF i % 20 = 0 THEN StrCell(<<"a", "b", "c">>) ELSE fill] :
                    fill \in {NumCell(42), StrCell(<<"2", "0", "2", "5", "/", "0", "6", "/", "1", "5">>)} },
      blanks \in {<<>>, <<NullCell, StrCell(<<>>)>>},
      more \in {0, 1, 3 * MaxClsCount} }

ClsInputs ==
  SeqsUpTo(ClsRows, MaxClsRows)
    \cup {rows \in ClsCounted : Len(rows) <= MaxClsCount}
    \cup ClsLong

InitClassify ==
  /\ tz \in TZOffsets
  /\ data \in ClsInputs
  /\ parseArgs = <<>> /\ parseRes = <<>>
  /\ clsCol = Undefined /\ clsOut = NoType
  /\ smpLimit = 0 /\ smpOut = NoResult
  /\ cleanRuns = 0 /\ cleanIn = <<>> /\ cleanOnce = <<>>
  /\ aggX = Undefined /\ aggY = Undefined /\ aggOut = NoResult
  /\ stats = NoStats
  /\ AppIdle /\ CallIdle

Classify ==
  /\ clsOut = NoType
  /\ \E column \in ClsColumns :
       /\ clsCol' = column
       /\ clsOut' = detectColumnTypeCall(data, column, tz)
  /\ UNCHANGED <<tz, data, parseArgs, parseRes, smpLimit, smpOut, cleanRuns,
                 cleanIn, cleanOnce, aggX, aggY, aggOut, stats>>
  /\ UNCHANGED <<appVars, callVars>>

NextClassify == Classify

SpecClassify == InitClassify /\ [][NextClassify]_vars

----------------------------------------------------------------------------
(* Claims on detectColumnType *)

\* the identifier keywords the claim names: id, no, code and the one of 訂單編號
C7_Keywords == { <<"i", "d">>, <<"n", "o">>, <<"c", "o", "d", "e">>, <<"U7DE8", "U865F">> }

C7_Classified == clsOut # NoType /\ clsCol.t = "string"

\* every value of the dataset is a number or an 8-digit or slash date
C7_AllNumericOrDate ==
  /\ data # <<>>
  /\ \A i \in DOMAIN data :
       /\ HasKey(data[i], clsCol.s)
       /\ Get(data[i], clsCol.s) \in
            {NumCell(42), StrCell(<<"2", "0", "2", "5", "0", "6", "1", "5">>), StrCell(<<"2", "0", "2", "5", "/", "0", "6", "/", "1", "5">>)}

\* C7: a column whose name, in lower case, contains an identifier keyword is
\* classified 'string', whatever the dataset holds.
C7_IdentifierIsString ==
  (C7_Classified
     /\ \E kw \in C7_Keywords : Includes(ToLowerCase(clsCol.s), kw))
    => clsOut = "string"

\* 訂單編號 over numeric-looking values only, classified 'string'
C7_Witness ==
  /\ C7_Classified
  /\ clsCol.s = <<"U8A02", "U55AE", "U7DE8", "U865F">>
  /\ C7_AllNumericOrDate
  /\ Len(data) = MaxClsRows
  /\ clsOut = "string"

\* C8 (as claimed): classify returns one of the three types and never throws,
\* for every column name, the empty and the undefined one included, and these
\* two give 'string'.
C8_Total ==
  clsOut # NoType =>
    /\ clsOut \in {"string", "number", "date"}
    /\ (clsCol.t = "undefined" \/ clsCol.s = <<>>) => clsOut = "string"

\* the rows whose cell of the column is a sampled non-empty value: neither
\* null, undefined nor the empty string, with fewer than 100 such cells
\* before it
NonEmpty(i) ==
  LET c == Get(data[i], clsCol.s)
  IN  c.t \notin {"null", "undefined"} /\ c # StrCell(<<>>)

Sampled ==
  { i \in DOMAIN data :
      NonEmpty(i) /\ Cardinality({j \in 1..(i - 1) : NonEmpty(j)}) < 100 }

SampledDates == {i \in Sampled : CountsAsDate(Get(data[i], clsCol.s), tz)}

SampledNumbers == {i \in Sampled : CountsAsNumber(Get(data[i], clsCol.s))}

\* a call with a column name that has no identifier keyword
C19_Classified ==
  clsOut # NoType /\ clsCol.t = "string" /\ ~IsIdentifierColumn(clsCol.s)

\* C19: with n the number of sampled non-empty values, classify returns
\* 'date' if n > 0 and dateCount/n > 0.8; otherwise 'number' if n > 0 and
\* numberCount/n > 0.9; otherwise 'string'.  The date test takes priority,
\* and a column with no non-empty value is 'string'.
C19_Thresholds ==
  C19_Classified =>
    LET n == Cardinality(Sampled)
        dates == Cardinality(SampledDates)
        numbers == Cardinality(SampledNumbers)
    IN  /\ (n > 0 /\ 10 * dates > 8 * n) => clsOut = "date"
        /\ (~(n > 0 /\ 10 * dates > 8 * n) /\ n > 0 /\ 10 * numbers > 9 * n)
              => clsOut = "number"
        /\ (n = 0 \/ (10 * dates <= 8 * n /\ 10 * numbers <= 9 * n))
              => clsOut = "string"

\* a column of several values that all satisfy both tests is 'date'
C19_Witness ==
  /\ C19_Classified
  /\ Cardinality(Sampled) > 1
  /\ SampledDates = Sampled /\ SampledNumbers = Sampled
  /\ clsOut = "date"

\* the rows of data at the indices of S, in their order
RowsAt(S) ==
  LET kept == SelectSeq([i \in DOMAIN data |-> <<i, data[i]>>], LAMBDA e : e[1] \in S)
  IN  [k \in DOMAIN kept |-> kept[k][2]]

\* C20: classify looks at the first 100 non-empty values of the column in
\* dataset order and at nothing else: the result is the one for the dataset
\* of these values alone, without the blank cells and without any cell after
\* the 100th non-empty value.
C20_FirstHundredOnly ==
  C19_Classified =>
    Bind(Sampled, LAMBDA S : clsOut = detectColumnType(RowsAt(S), clsCol.s, tz))

\* a column with blank cells before its 100th non-empty value and values
\* after it whose count would change the result
C20_Witness ==
  /\ C19_Classified
  /\ \E i \in DOMAIN data : i < 100 /\ ~NonEmpty(i) /\ clsCol.s \in DOMAIN data[i].val
  /\ Cardinality({i \in DOMAIN data : NonEmpty(i)}) > 100
  /\ clsOut \in {"date", "number"}
  /\ clsOut # ClassifyCounts(
       [sampleCount |-> Cardinality({i \in DOMAIN data : NonEmpty(i)}),
        numberCount |-> Cardinality({i \in DOMAIN data : NonEmpty(i) /\ CountsAsNumber(Get(data[i], clsCol.s))}),
        dateCount |-> Cardinality({i \in DOMAIN data : NonEmpty(i) /\ CountsAsDate(Get(data[i], clsCol.s), tz)})])

----------------------------------------------------------------------------
(* Specification of cleanAndEnrichData: the caller cleans a dataset, and then
   cleans the result again.  The first row has every column of its layout;
   the rows after it may lack the last column (rows of a second file merged
   in by parseMultipleExcelFiles). *)

MaxExtraRows == 1

\* document date, predicted date, actual date, difference
LayoutEn == << <<"O", "r", "d", "e", "r", " ", "D", "a", "t", "e">>, <<"P", "l", "a", "n", "n", "e", "d", " ", "D", "a", "t", "e">>, <<"A", "c", "t", "u", "a", "l">>, <<"D", "i", "f", "f">> >>

LayoutZh == << <<"U55AE", "U64DA", "U65E5", "U671F">>, <<"U9810", "U8A08", "U4EA4", "U8CA8", "U65E5">>, <<"U5BE6", "U969B", "U5B8C", "U5DE5", "U65E5">>, <<"U5DEE", "U7570", "U5929", "U6578">> >>

\* one header for the document and predicted date, one for the actual date
\* and the difference
LayoutDual == << <<"P", "l", "a", "n", "n", "e", "d", " ", "D", "a", "t", "e">>, <<"A", "c", "t", "u", "a", "l", " ", "D", "i", "f", "f">> >>

DocCells ==
  { StrCell(<<"2", "0", "2", "4", "0", "1", "1", "0">>), StrCell(<<"2", "0", "2", "4", "-", "0", "1", "-", "1", "0">>), StrCell(<<"2", "0", "2", "4", "/", "0", "1", "/", "1", "0">>),
    StrCell(<<"2", "0", "2", "4", "0", "1">>), StrCell(<<"0", "0", "2", "4", "0", "1", "1", "0">>), StrCell(<<"N", "/", "A">>), StrCell(<<"T", "B", "D">>), NumCell(20240110), NullCell }

PredictedCells ==
  { StrCell(<<"2", "0", "2", "3", "0", "2">>), StrCell(<<"2", "0", "2", "3", "0", "2", "1", "5">>), StrCell(<<"2", "0", "2", "3", "-", "0", "2", "-", "1", "5">>), StrCell(<<"2", "0", "2", "4", "0", "2", "1", "5">>),
    StrCell(<<"2", "0", "2", "4", "/", "0", "2", "/", "1", "5">>), StrCell(<<"0", "0", "2", "4", "0", "2", "1", "5">>), StrCell(<<"0", "0", "2", "4", "-", "0", "2", "-", "1", "5">>),
    StrCell(<<"T", "B", "D">>), NullCell }

ActualCells ==
  { StrCell(<<"2", "0", "2", "4", "0", "2", "2", "0">>), StrCell(<<"2", "0", "2", "4", "-", "0", "2", "-", "2", "0">>), StrCell(<<>>), NullCell }

DiffCells == { NumCell(5), NullCell }

\* the first rows of a four-column layout
FullRows(layout) ==
  { MkRow(layout, <<d, p, a, x>>) :
      d \in DocCells, p \in PredictedCells, a \in ActualCells, x \in DiffCells }

\* later rows of a four-column layout: one without the difference column,
\* one with an implausible year and no document date
ExtraRows(layout) ==
  { MkRow(SubSeq(layout, 1, 3),
          <<StrCell(<<"2", "0", "2", "4", "0", "1", "1", "0">>), StrCell(<<"2", "0", "2", "4", "0", "2", "1", "5">>), StrCell(<<"2", "0", "2", "4", "0", "2", "2", "0">>)>>),
    MkRow(layout,
          <<NullCell, StrCell(<<"0", "0", "2", "4", "/", "0", "2", "/", "1", "5">>), StrCell(<<"2", "0", "2", "4", "0", "2", "2", "0">>), NumCell(5)>>) }

\* the rows of the two-column layout
DualRows ==
  { MkRow(LayoutDual, <<p, a>>) :
      p \in {StrCell(<<"2", "0", "2", "4", "0", "1", "0", "1">>), StrCell(<<"2", "0", "2", "4", "-", "0", "1", "-", "0", "1">>), NullCell},
      a \in {StrCell(<<"2", "0", "2", "4", "0", "1", "0", "5">>), NumCell(0), NullCell} }

\* layouts with a column of part codes: the four roles, the four roles less
\* one, two predicted dates, the predicted date before the document date, and
\* two differences
LayoutPart == << <<"O", "r", "d", "e", "r", " ", "D", "a", "t", "e">>, <<"P", "l", "a", "n", "n", "e", "d", " ", "D", "a", "t", "e">>, <<"A", "c", "t", "u", "a", "l">>, <<"D", "i", "f", "f">>, <<"P", "a", "r", "t">> >>

Without(layout, j) == SubSeq(layout, 1, j - 1) \o SubSeq(layout, j + 1, Len(layout))

PartLayouts ==
  { LayoutPart }
    \cup { Without(LayoutPart, j) : j \in 1..4 }
    \cup { << <<"O", "r", "d", "e", "r", " ", "D", "a", "t", "e">>, <<"P", "l", "a", "n", "n", "e", "d", " ", "D", "a", "t", "e">>, <<"T", "a", "r", "g", "e", "t", " ", "D", "a", "t", "e">>, <<"A", "c", "t", "u", "a", "l">>, <<"D", "i", "f", "f">>, <<"P", "a", "r", "t">> >>,
           << <<"P", "l", "a", "n", "n", "e", "d", " ", "D", "a", "t", "e">>, <<"O", "r", "d", "e", "r", " ", "D", "a", "t", "e">>, <<"A", "c", "t", "u", "a", "l">>, <<"D", "i", "f", "f">>, <<"P", "a", "r", "t">> >>,
           << <<"O", "r", "d", "e", "r", " ", "D", "a", "t", "e">>, <<"P", "l", "a", "n", "n", "e", "d", " ", "D", "a", "t", "e">>, <<"A", "c", "t", "u", "a", "l">>, <<"D", "i", "f", "f">>, <<"D", "i", "f", "f", " ", "D", "a", "y", "s">>, <<"P", "a", "r", "t">> >> }

\* the cell of a column of these layouts: p is the predicted date, code the
\* part code
PartCell(header, p, code) ==
  CASE header = <<"O", "r", "d", "e", "r", " ", "D", "a", "t", "e">> -> StrCell(<<"2", "0", "2", "4", "0", "1", "1", "0">>)
    [] header = <<"P", "l", "a", "n", "n", "e", "d", " ", "D", "a", "t", "e">> -> p
    [] header = <<"T", "a", "r", "g", "e", "t", " ", "D", "a", "t", "e">> -> StrCell(<<"2", "0", "2", "3", "0", "3", "0", "1">>)
    [] header = <<"A", "c", "t", "u", "a", "l">> -> StrCell(<<"2", "0", "2", "4", "0", "2", "2", "0">>)
    [] header = <<"D", "i", "f", "f">> -> NumCell(5)
    [] header = <<"D", "i", "f", "f", " ", "D", "a", "y", "s">> -> NumCell(5)
    [] header = <<"P", "a", "r", "t">> -> code

\* two rows: a predicted date in the year before the document date, in its
\* year but earlier, or later, with a part name; then a later predicted date
\* with a part code of eight digits
PartRows ==
  { << MkRow(layout, [j \in DOMAIN layout |-> PartCell(layout[j], p, StrCell(<<"b", "o", "l", "t">>))]),
       MkRow(layout, [j \in DOMAIN layout |->
                        PartCell(layout[j], StrCell(<<"2", "0", "2", "4", "0", "2", "1", "5">>), StrCell(<<"1", "0", "0", "5", "2", "3", "0", "1">>))]) >> :
      layout \in PartLayouts,
      p \in {StrCell(<<"2", "0", "2", "3", "0", "1", "0", "5">>), StrCell(<<"2", "0", "2", "4", "0", "1", "0", "5">>), StrCell(<<"2", "0", "2", "4", "0", "2", "1", "5">>)} }

CleanInputs ==
  UNION { { <<first>> \o rest :
              first \in FullRows(layout),
              rest \in SeqsUpTo(ExtraRows(layout), MaxExtraRows) } :
          layout \in {LayoutEn, LayoutZh} }
    \cup { <<first>> \o rest :
             first \in DualRows, rest \in SeqsUpTo(DualRows, MaxExtraRows) }
    \cup PartRows
    \cup { <<>> }

InitClean ==
  /\ tz \in TZOffsets
  /\ data \in CleanInputs
  /\ cleanIn = data
  /\ cleanRuns = 0 /\ cleanOnce = <<>>
  /\ parseArgs = <<>> /\ parseRes = <<>>
  /\ clsCol = Undefined /\ clsOut = NoType
  /\ smpLimit = 0 /\ smpOut = NoResult
  /\ aggX = Undefined /\ aggY = Undefined /\ aggOut = NoResult
  /\ stats = NoStats
  /\ AppIdle /\ CallIdle

\* data = cleanAndEnrichData(data)
Clean ==
  /\ cleanRuns < 2
  /\ cleanRuns' = cleanRuns + 1
  /\ data' = cleanAndEnrichData(data, tz)
  /\ cleanOnce' = IF cleanRuns = 0 THEN data' ELSE cleanOnce
  /\ UNCHANGED <<tz, cleanIn, parseArgs, parseRes, clsCol, clsOut, smpLimit,
                 smpOut, aggX, aggY, aggOut, stats>>
  /\ UNCHANGED <<appVars, callVars>>

NextClean == Clean

SpecClean == InitClean /\ [][NextClean]_vars

----------------------------------------------------------------------------
(* Claims on cleanAndEnrichData *)

KeySet(row) == DOMAIN row.val

\* C9 (as claimed): clean changes neither the number of rows nor the set of
\* column names of any row, for every input dataset.
C9_KeysUnchanged ==
  cleanRuns >= 1 =>
    /\ Len(data) = Len(cleanIn)
    /\ \A i \in DOMAIN data : KeySet(data[i]) = KeySet(cleanIn[i])

\* C9 (amended): clean never changes the number of rows and never removes a
\* column from a row; a row that has every column of the first row keeps
\* exactly its columns, and a row that lacks some of them gains at most
\* columns of the first row.
C9_KeysOfSchemaUnchanged ==
  cleanRuns >= 1 =>
    /\ Len(data) = Len(cleanIn)
    /\ \A i \in DOMAIN data :
         /\ KeySet(cleanIn[i]) \subseteq KeySet(data[i])
         /\ KeySet(data[i]) \subseteq KeySet(cleanIn[i]) \cup KeySet(cleanIn[1])
         /\ KeySet(cleanIn[1]) \subseteq KeySet(cleanIn[i])
              => KeySet(data[i]) = KeySet(cleanIn[i])

\* two rows with the columns of the first, cleaned once, the predicted date
\* and the difference of the first row rewritten
C9_Witness ==
  /\ cleanRuns = 1
  /\ Len(data) = 2
  /\ \A i \in DOMAIN data : KeySet(cleanIn[i]) = Range(LayoutZh)
  /\ \A i \in DOMAIN data : KeySet(data[i]) = Range(LayoutZh)
  /\ Get(data[1], LayoutZh[2]) # Get(cleanIn[1], LayoutZh[2])
  /\ Get(data[1], LayoutZh[4]) # Get(cleanIn[1], LayoutZh[4])

\* the year and the month and day of a date text: of eight or six digits, or
\* of parts separated by - or /, the year first
YearText(s) ==
  IF AllDigits(s) /\ Len(s) \in {6, 8} THEN Substring(s, 0, 4) ELSE SplitDate(s)[1]

MonthDayText(s) ==
  IF AllDigits(s) /\ Len(s) \in {6, 8} THEN <<SubstringFrom(s, 4)>>
  ELSE Tail(SplitDate(s))

\* row i had a document date and a predicted date that the year repair leaves
\* alone, the predicted date earlier than the document date
PredictedEarlier(i) ==
  LET r == Roles(cleanIn[1].keys)
      doc == Get(cleanIn[i], r.doc.s)
      pred == Get(cleanIn[i], r.predicted.s)
  IN  /\ ColFound(r.doc) /\ ColFound(r.predicted) /\ r.doc # r.predicted
      /\ CellTruthy(doc) /\ CellTruthy(pred)
      /\ ~NeedsYearFix(JsString(doc)) /\ ~NeedsYearFix(JsString(pred))
      /\ JsLt(parseDateSafe(JsString(pred), tz), parseDateSafe(JsString(doc), tz))

\* the predicted date of row i after the first pass has the year of the
\* document date and the month and day it had before
YearOfDocument(i) ==
  LET r == Roles(cleanIn[1].keys)
      doc == JsString(Get(cleanIn[i], r.doc.s))
      pred == JsString(Get(cleanIn[i], r.predicted.s))
      out == JsString(Get(cleanOnce[i], r.predicted.s))
  IN  YearText(out) = YearText(doc) /\ MonthDayText(out) = MonthDayText(pred)

\* C11 (as claimed): in every row whose predicted date parses earlier than
\* its document date, clean writes the year of the document date over the
\* year of the predicted date and keeps its month and day.
C11_YearOverwritten ==
  cleanRuns >= 1 =>
    \A i \in DOMAIN cleanIn : PredictedEarlier(i) => YearOfDocument(i)

\* the same for the rows whose two dates are texts of eight digits or of
\* three parts
FullDateText(s) == (AllDigits(s) /\ Len(s) = 8) \/ Len(SplitDate(s)) = 3

C11_YearOverwrittenFullDates ==
  cleanRuns >= 1 =>
    \A i \in DOMAIN cleanIn :
      LET r == Roles(cleanIn[1].keys)
      IN  (/\ PredictedEarlier(i)
           /\ FullDateText(JsString(Get(cleanIn[i], r.doc.s)))
           /\ FullDateText(JsString(Get(cleanIn[i], r.predicted.s))))
            => YearOfDocument(i)

\* the document date of row i before the first pass, as a text
DocText(i) ==
  LET r == Roles(cleanIn[1].keys)
  IN  IF ColFound(r.doc) /\ CellTruthy(Get(cleanIn[i], r.doc.s))
      THEN JsString(Get(cleanIn[i], r.doc.s))
      ELSE <<>>

\* the document date of row i is available and its year is above 2000
DocYearPlausible(i) ==
  DocText(i) # <<>> /\ JsGt(ParseInt(YearText(DocText(i))), Num(2000))

\* the year the claim expects in a repaired cell of row i; the fallback is
\* the year the code has for the current one
ExpectedYear(i) ==
  IF DocYearPlausible(i) THEN YearText(DocText(i)) ELSE <<"2", "0", "2", "5">>

\* C12 (as claimed): a cell with a year below 2000 gets the year of the
\* document date of its row when that date is available and its year is
\* above 2000, and the current year otherwise; no repaired cell keeps a
\* year below 2000.
C12_RepairedYear ==
  cleanRuns >= 1 =>
    \A i \in DOMAIN cleanIn : \A j \in DOMAIN cleanIn[1].keys :
      LET key == cleanIn[1].keys[j]
      IN  NeedsYearFix(TextOrEmpty(cleanIn[i], key))
            => /\ YearText(JsString(Get(cleanOnce[i], key))) = ExpectedYear(i)
               /\ ~NeedsYearFix(TextOrEmpty(cleanOnce[i], key))

\* the same for the rows whose document date is absent, or a text of eight
\* digits or of three parts with a year above 2000
C12_RepairedYearGoodDocument ==
  cleanRuns >= 1 =>
    \A i \in DOMAIN cleanIn : \A j \in DOMAIN cleanIn[1].keys :
      LET key == cleanIn[1].keys[j]
      IN  (/\ NeedsYearFix(TextOrEmpty(cleanIn[i], key))
           /\ DocText(i) # <<>> => (FullDateText(DocText(i)) /\ DocYearPlausible(i)))
            => /\ YearText(JsString(Get(cleanOnce[i], key))) = ExpectedYear(i)
               /\ ~NeedsYearFix(TextOrEmpty(cleanOnce[i], key))

\* the year repair would still rewrite some cell of the dataset
YearRepairTriggers(rows) ==
  /\ rows # <<>>
  /\ \E i \in DOMAIN rows : \E j \in DOMAIN rows[1].keys :
       NeedsYearFix(TextOrEmpty(rows[i], rows[1].keys[j]))

\* C10 (as claimed): when the year repair no longer triggers after the first
\* pass, a second pass leaves every row as the first pass left it.
C10_Idempotent ==
  (cleanRuns = 2 /\ ~YearRepairTriggers(cleanOnce)) => data = cleanOnce

\* no header plays two roles
DistinctRoles(rows) ==
  rows # <<>> =>
    LET r == Roles(rows[1].keys)
    IN  \A a, b \in {"doc", "predicted", "actual", "diff"} :
          (a # b /\ ColFound(r[a])) => r[a] # r[b]

C10_IdempotentDistinctRoles ==
  (cleanRuns = 2 /\ ~YearRepairTriggers(cleanOnce) /\ DistinctRoles(cleanIn))
    => data = cleanOnce

\* a text cell that parseDateSafe reads no date in
Unparseable(c) == c.t = "string" /\ c.s # <<>> /\ parseDateSafe(c.s, tz).nan

\* C18: clean leaves an empty dataset unchanged, and a cell that fails to
\* parse only causes the repair to be skipped for that cell, all other cells
\* of the row being processed normally: the cell stays as it was and the
\* other cells of the row end as they do when the cell is blank.
C18_MalformedCellSkipped ==
  cleanRuns = 1 =>
    /\ (cleanIn = <<>> => data = <<>>)
    /\ Len(data) = Len(cleanIn)
    /\ \A i \in DOMAIN cleanIn : \A k \in KeySet(cleanIn[i]) :
         Unparseable(Get(cleanIn[i], k)) =>
           /\ Get(data[i], k) = Get(cleanIn[i], k)
           /\ \A h \in KeySet(data[i]) \ {k} :
                Get(data[i], h) = Get(CleanRow(Put(cleanIn[i], k, NullCell), cleanIn[1].keys, tz), h)

\* the same for the rows whose unparseable cells hold no '/' and no '-'
C18_MalformedCellSkippedNoSeparator ==
  (\A i \in DOMAIN cleanIn : \A k \in KeySet(cleanIn[i]) :
      Unparseable(Get(cleanIn[i], k)) =>
        ~Includes(Get(cleanIn[i], k).s, <<"/">>) /\ ~Includes(Get(cleanIn[i], k).s, <<"-">>))
    => C18_MalformedCellSkipped

\* a header with a date keyword in it: 'date', '日', '時間', or a keyword of
\* the document, predicted or actual date
HasDateKeyword(h) ==
  \/ Includes(ToLowerCase(h), <<"d", "a", "t", "e">>) \/ Includes(h, <<"U65E5">>) \/ Includes(h, <<"U6642", "U9593">>)
  \/ IncludesAny(h, DocKeywords \cup PredictedKeywords \cup ActualKeywords)

\* a column of the dataset given to clean that is date-like
DateLikeColumn(h) ==
  HasDateKeyword(h) \/ detectColumnType(cleanIn, h, tz) = "date"

\* C21: year repair in clean modifies a cell only if its column is date-like
\* (its header contains a date keyword, or the classifier returns 'date' for
\* it): after clean, the cells of the other columns, the difference column
\* apart, are as they were.
C21_OnlyDateLikeRepaired ==
  cleanRuns = 1 =>
    \A i \in DOMAIN cleanIn : \A h \in KeySet(cleanIn[i]) :
      (~DateLikeColumn(h) /\ ~IncludesAny(h, DiffKeywords))
        => Get(data[i], h) = Get(cleanIn[i], h)

\* the roles of the dataset given to clean
InRoles == Roles(cleanIn[1].keys)

\* a cell that holds a value: neither absent, null nor the empty string
Populated(row, col) ==
  /\ ColFound(col) /\ HasKey(row, col.s)
  /\ Get(row, col.s).t \notin {"null", "undefined"}
  /\ Get(row, col.s) # StrCell(<<>>)

PredictedTime(r, i) == parseDateSafe(JsString(Get(data[i], r.predicted.s)), tz)

ActualTime(r, i) == parseDateSafe(JsString(Get(data[i], r.actual.s)), tz)

\* the predicted and actual cells of row i are non-empty and parse to a time
\* after 1970
BothDatesRead(r, i) ==
  /\ ColFound(r.predicted) /\ ColFound(r.actual)
  /\ CellTruthy(Get(data[i], r.predicted.s))
  /\ CellTruthy(Get(data[i], r.actual.s))
  /\ JsGt(PredictedTime(r, i), Num(0)) /\ JsGt(ActualTime(r, i), Num(0))

\* the difference column is a column of its own
OwnDifferenceColumn(r) ==
  ColFound(r.diff) /\ r.diff \notin {r.doc, r.predicted, r.actual}

C26_PredictedNotEarlier ==
  (cleanRuns = 1 /\ cleanIn # <<>>) =>
    Bind(InRoles, LAMBDA r :
      (ColFound(r.doc) /\ ColFound(r.predicted)) =>
        \A i \in DOMAIN data :
          LET d1 == parseDateSafe(JsString(Get(data[i], r.doc.s)), tz)
              d2 == parseDateSafe(JsString(Get(data[i], r.predicted.s)), tz)
          IN  (/\ Populated(data[i], r.doc) /\ Populated(data[i], r.predicted)
               /\ ~d1.nan /\ ~d2.nan)
                => ~JsLt(d2, d1))

\* the first header, in header order, that holds one of the keywords (and,
\* for the predicted date, '日' or 'Date'); <<>> when there is none
Matches(role, h) ==
  CASE role = "doc" -> IncludesAny(h, DocKeywords)
    [] role = "predicted" -> IncludesAny(h, PredictedKeywords)
                               /\ (Includes(h, <<"U65E5">>) \/ Includes(h, <<"D", "a", "t", "e">>))
    [] role = "actual" -> IncludesAny(h, ActualKeywords)
    [] role = "diff" -> IncludesAny(h, DiffKeywords)

MatchingHeaders(role) ==
  {j \in DOMAIN cleanIn[1].keys : Matches(role, cleanIn[1].keys[j])}

IsFirstMatch(role, h) ==
  \E j \in MatchingHeaders(role) :
    /\ cleanIn[1].keys[j] = h
    /\ \A k \in MatchingHeaders(role) : j <= k

\* no cell of row i is a date with a year before 2000
NoYearRepair(i) ==
  \A h \in KeySet(cleanIn[i]) : ~NeedsYearFix(TextOrEmpty(cleanIn[i], h))

\* C27: role discovery selects at most one column per role, the first header
\* in header order that matches the role's keywords, and when a role has no
\* matching header the steps that depend on it modify no cell: year repair
\* apart, a cell that clean changed is the predicted date of a dataset with a
\* document date, or the difference of a dataset with a predicted and an
\* actual date.
C27_FirstMatchingHeader ==
  (cleanRuns = 1 /\ cleanIn # <<>>) =>
    \A i \in DOMAIN cleanIn :
      NoYearRepair(i) =>
        \A h \in KeySet(data[i]) :
          Get(data[i], h) # Get(cleanIn[i], h) =>
            \/ IsFirstMatch("predicted", h) /\ MatchingHeaders("doc") # {}
            \/ /\ IsFirstMatch("diff", h)
               /\ MatchingHeaders("predicted") # {} /\ MatchingHeaders("actual") # {}

\* two headers match the predicted date, both hold a date before the
\* document date, and the first alone was rewritten
C27_Witness ==
  /\ cleanRuns = 1 /\ cleanIn # <<>>
  /\ Cardinality(MatchingHeaders("predicted")) = 2
  /\ NoYearRepair(1)
  /\ \A j \in MatchingHeaders("predicted") :
       LET h == cleanIn[1].keys[j]
       IN  /\ JsLt(parseDateSafe(JsString(Get(cleanIn[1], h)), tz),
                   parseDateSafe(JsString(Get(cleanIn[1], LayoutPart[1])), tz))
           /\ (Get(data[1], h) # Get(cleanIn[1], h)) <=> IsFirstMatch("predicted", h)

\* a dataset with no actual date header whose predicted date was rewritten
\* and whose difference was left as it was
C27_WitnessNoRole ==
  /\ cleanRuns = 1 /\ cleanIn # <<>>
  /\ MatchingHeaders("actual") = {} /\ MatchingHeaders("diff") # {}
  /\ \E h \in KeySet(data[1]) :
       IsFirstMatch("predicted", h) /\ Get(data[1], h) # Get(cleanIn[1], h)
  /\ \A h \in KeySet(data[1]) :
       IsFirstMatch("diff", h) => Get(data[1], h) = Get(cleanIn[1], h)

----------------------------------------------------------------------------
(* Specification of aggregateData: one call on a dataset of up to MaxCats
   categories, a category column and five value columns *)

MaxCats == 13

\* the category columns: a text, dates named as dates, month codes
AggXNames == << <<"R", "e", "g", "i", "o", "n">>, <<"S", "h", "i", "p", " ", "D", "a", "t", "e">>, <<"U65E5", "U671F">>, <<"P", "e", "r", "i", "o", "d">> >>

AggYNames == << <<"R", "e", "v", "e", "n", "u", "e">>, <<"Y", "i", "e", "l", "d", " ", "R", "a", "t", "e">>, <<"O", "r", "d", "e", "r", " ", "N", "o">>, <<"S", "t", "a", "t", "u", "s">>, <<"P", "a", "i", "d", " ", "R", "a", "t", "e">> >>

AbsentColumn == <<"M", "i", "s", "s", "i", "n", "g">>

TwoDigits(n) == IF n < 10 THEN <<"0">> \o NatToString(n) ELSE NatToString(n)

\* the category of the i-th group in the column of kind k
Category(k, i) ==
  CASE k = 1 -> StrCell(<<"R">> \o NatToString(i))
    [] k = 2 -> IF i % 2 = 1 THEN StrCell(<<"2", "0", "2", "4", "0", "1">> \o TwoDigits(i))
                ELSE StrCell(<<"2", "0", "2", "4", "-", "0", "1", "-">> \o TwoDigits(i))
    [] k = 3 -> StrCell(<<"2", "0", "2", "4", "/", "0", "1", "/">> \o TwoDigits(i))
    [] k = 4 -> IF i <= 12 THEN NumCell(202400 + i) ELSE NumCell(202488 + i)

\* a row of the category c and of the values v of the first four value
\* columns; the fifth value column holds the value of the second
AggMkRow(k, c, v) == MkRow(<<AggXNames[k]>> \o AggYNames, <<c>> \o v \o <<v[2]>>)

\* the row of the i-th group
AggRow(k, i) ==
  AggMkRow(k, Category(k, i),
           << NumCell(((i * 3) % 7) + 1),
              IF i % 2 = 1 THEN StrCell(<<"1", ".", "5">>) ELSE NumCell(i % 3),
              StrCell(<<"A">> \o NatToString(i)),
              IF i = 1 THEN NullCell ELSE StrCell(<<"O", "K">>) >>)

\* the orders of the rows: ascending, descending, odd groups then even groups
RowOrders(n) ==
  { [i \in 1..n |-> i], [i \in 1..n |-> n + 1 - i],
    [i \in 1..n |-> IF i <= (n + 1) \div 2 THEN 2 * i - 1
                    ELSE 2 * (i - (n + 1) \div 2)] }

\* more rows: a second row of the first group, a null category, a row with
\* no category column, a category that is no date, an empty category
AggExtras(k) ==
  << AggMkRow(k, Category(k, 1), <<StrCell(<<"1", "2", "a", "b", "c">>), NullCell, NullCell, StrCell(<<"O", "K">>)>>),
     AggMkRow(k, NullCell, <<NumCell(4), NumCell(1), StrCell(<<"A", "0">>), StrCell(<<"O", "K">>)>>),
     MkRow(AggYNames, <<NumCell(4), NumCell(1), StrCell(<<"A", "0">>), StrCell(<<"O", "K">>), NumCell(1)>>),
     AggMkRow(k, StrCell(<<"T", "B", "D">>), <<NumCell(2), StrCell(<<"n", "/", "a">>), StrCell(<<"A", "0">>), NullCell>>),
     AggMkRow(k, StrCell(<<>>), <<NumCell(9), NumCell(2), StrCell(<<"A", "0">>), NullCell>>) >>

\* the rows with one more row put after the first at rows
InsertAfter(rows, at, row) ==
  SubSeq(rows, 1, at) \o <<row>> \o SubSeq(rows, at + 1, Len(rows))

\* the groups in one of the orders, alone, followed by the extra rows, or
\* with the category that is no date in the middle
AggInputs ==
  UNION { UNION { { [i \in 1..n |-> AggRow(k, o[i])] \o extras :
                      extras \in {<<>>, AggExtras(k)} }
                    \cup { InsertAfter([i \in 1..n |-> AggRow(k, o[i])], n \div 2, AggExtras(k)[4]) } :
                  o \in RowOrders(n) } :
          k \in DOMAIN AggXNames, n \in 0..MaxCats }

InitAggregate ==
  /\ tz \in TZOffsets
  /\ data \in AggInputs
  /\ parseArgs = <<>> /\ parseRes = <<>>
  /\ clsCol = Undefined /\ clsOut = NoType
  /\ smpLimit = 0 /\ smpOut = NoResult
  /\ cleanRuns = 0 /\ cleanIn = <<>> /\ cleanOnce = <<>>
  /\ aggX = Undefined /\ aggY = Undefined /\ aggOut = NoResult
  /\ stats = NoStats
  /\ AppIdle /\ CallIdle

\* the category columns of a call: the category column of the dataset, a
\* value column, and a column that no row has
AggColumns ==
  {n \in Range(AggXNames) : \E i \in DOMAIN data : HasKey(data[i], n)}
    \cup {AggYNames[1], AbsentColumn}

\* an aggregateData that sorted the rows it was given, in place, by the value
\* column
Aggregate_inplace ==
  /\ aggX = Undefined
  /\ \E x \in AggColumns :
       \E y \in Range(AggYNames) \cup {AbsentColumn} :
         /\ aggX' = StrCell(x)
         /\ aggY' = StrCell(y)
         /\ aggOut' = aggregateData(data, x, y, tz)
         /\ data' = ArraySort(data, [i \in DOMAIN data |-> [j \in DOMAIN data |->
                      FracCmp(numVal(data[j], y, "sum"), numVal(data[i], y, "sum"))]])
  /\ UNCHANGED <<tz, parseArgs, parseRes, clsCol, clsOut, smpLimit,
                 smpOut, cleanRuns, cleanIn, cleanOnce, stats>>
  /\ UNCHANGED <<appVars, callVars>>

\* aggregateData(data, x, y)
Aggregate ==
  /\ aggX = Undefined
  /\ \E x \in AggColumns :
       \E y \in Range(AggYNames) \cup {AbsentColumn} :
         /\ aggX' = StrCell(x)
         /\ aggY' = StrCell(y)
         /\ aggOut' = aggregateData(data, x, y, tz)
  /\ UNCHANGED <<tz, data, parseArgs, parseRes, clsCol, clsOut, smpLimit,
                 smpOut, cleanRuns, cleanIn, cleanOnce, stats>>
  /\ UNCHANGED <<appVars, callVars>>

NextAggregate == Aggregate

SpecAggregate == InitAggregate /\ [][NextAggregate]_vars

----------------------------------------------------------------------------
(* Claims on aggregateData *)

\* the group keys of the dataset for the category column of the call
GroupKeys ==
  { JsString(Get(data[i], aggX.s)) :
      i \in {j \in DOMAIN data : Get(data[j], aggX.s).t \notin {"null", "undefined"}} }

\* C1: aggregate returns at most 12 points, whatever the number of distinct
\* category values and whichever ordering (date-like or not) applies.
C1_AtMostTwelve ==
  aggX # Undefined => Len(aggOut) <= 12

\* a call on a dataset of more than 12 groups that returned 12 points
C1_Witness ==
  /\ aggX # Undefined
  /\ Cardinality(GroupKeys) > 12
  /\ Len(aggOut) = 12

\* the groups of the call with their reduced values, before they are ordered
Groups == result(data, aggX.s, aggY.s)

\* the groups that the call left out
LeftOut == Range(Groups) \ Range(aggOut)

\* the columns of the dataset
ColumnsOfData == UNION { Range(data[i].keys) : i \in DOMAIN data }

\* C14: when the category column is not date-like, aggregate returns the
\* groups in non-increasing order of reduced value and they are the top 12:
\* every group left out has a reduced value no larger than every group
\* returned.
C14_TopTwelveByValue ==
  (aggX # Undefined /\ ~IsDateLike(data, aggX.s, tz)) =>
    /\ \A i \in 1..(Len(aggOut) - 1) :
         FracCmp(aggOut[i].value, aggOut[i + 1].value) >= 0
    /\ Range(aggOut) \subseteq Range(Groups)
    /\ Len(aggOut) = IF Len(Groups) < 12 THEN Len(Groups) ELSE 12
    /\ \A p \in LeftOut : \A q \in Range(aggOut) : FracCmp(p.value, q.value) <= 0

\* a call on more than 12 groups of a column that is not date-like, that
\* returned groups of different values and left one out
C14_Witness ==
  /\ aggX # Undefined
  /\ ~IsDateLike(data, aggX.s, tz)
  /\ Len(Groups) > 12
  /\ Len(aggOut) = 12
  /\ LeftOut # {}
  /\ aggOut[1].value # aggOut[12].value

\* the sort key of a returned or left-out group
KeyOf(p) == SortKey(p.name, tz)

\* C15: when the category column is date-like, aggregate returns the 12
\* groups with the latest parsed timestamps (all groups when there are fewer
\* than 12), ordered ascending by that timestamp; keys that do not parse are
\* ordered by raw string comparison.
C15_LatestTwelveAscending ==
  (aggX # Undefined /\ IsDateLike(data, aggX.s, tz)) =>
    /\ Range(aggOut) \subseteq Range(Groups)
    /\ Len(aggOut) = IF Len(Groups) < 12 THEN Len(Groups) ELSE 12
    /\ \A i, j \in DOMAIN aggOut :
         i < j =>
           /\ (KeyOf(aggOut[i]).time /\ KeyOf(aggOut[j]).time)
                 => KeyOf(aggOut[i]).v <= KeyOf(aggOut[j]).v
           /\ (~KeyOf(aggOut[i]).time /\ ~KeyOf(aggOut[j]).time)
                 => ~StrLt(aggOut[j].name, aggOut[i].name)
    /\ \A p \in LeftOut : \A q \in Range(aggOut) :
         (KeyOf(p).time /\ KeyOf(q).time) => KeyOf(p).v <= KeyOf(q).v

\* the same for the calls in which every key parses to a timestamp
C15_LatestTwelveAscendingAllParsed ==
  (\A p \in Range(Groups) : KeyOf(p).time) => C15_LatestTwelveAscending

\* C16: aggregate(D, x, y) where the category column x or the value column y
\* is not a column of D returns an empty sequence.
C16_AbsentColumnEmpty ==
  (aggX # Undefined /\ (aggX.s \notin ColumnsOfData \/ aggY.s \notin ColumnsOfData))
    => aggOut = <<>>

\* the same for an absent category column alone
C16_AbsentCategoryEmpty ==
  (aggX # Undefined /\ aggX.s \notin ColumnsOfData) => aggOut = <<>>

\* the tokens of the average and of the count mode
C23_AverageTokens ==
  { <<"r", "a", "t", "e">>, <<"p", "e", "r", "c", "e", "n", "t">>, <<"a", "v", "g">>, <<"y", "i", "e", "l", "d">>, <<"U7387">>, <<"U5E73", "U5747">>, <<"U5360", "U6BD4">>, <<"U9054", "U6210">> }

C23_CountTokens == { <<"i", "d">>, <<"n", "o">>, <<"c", "o", "d", "e">>, <<"U865F">>, <<"U55AE">>, <<"U4EE3", "U78BC">> }

\* the rows with a value in the value column that is neither null nor absent
C23_Valued ==
  {i \in DOMAIN data : Get(data[i], aggY.s).t \notin {"null", "undefined"}}

\* the first of them holds a string that is not a number
C23_FirstIsText ==
  /\ C23_Valued # {}
  /\ LET v == Get(data[CHOOSE i \in C23_Valued : \A j \in C23_Valued : i <= j], aggY.s)
     IN  v.t = "string" /\ StringToNumber(v.s).nan

\* the mode the claim gives to the call
C23_Mode ==
  IF \E t \in C23_AverageTokens : Includes(ToLowerCase(aggY.s), t) THEN "average"
  ELSE IF \E t \in C23_CountTokens : Includes(ToLowerCase(aggY.s), t) THEN "count"
  ELSE IF C23_FirstIsText THEN "count"
  ELSE "sum"

\* the rows of a group
RowsOfGroup(name) ==
  { i \in DOMAIN data :
      /\ Get(data[i], aggX.s).t \notin {"null", "undefined"}
      /\ JsString(Get(data[i], aggX.s)) = name }

\* the parsed value of row i, 0 for a missing or unparseable one
ParsedOrZero(i) ==
  LET p == ParseFloat(JsString(Get(data[i], aggY.s)))
  IN  IF p.nan THEN Frac(0, 1) ELSE p

\* the sum of the parsed values of the rows of S
RECURSIVE SumOver(_)
SumOver(S) ==
  IF S = {} THEN Frac(0, 1)
  ELSE LET i == CHOOSE j \in S : TRUE
       IN  FracAdd(SumOver(S \ {i}), ParsedOrZero(i))

\* the reduced value of a group in a mode
Reduced(name, m) ==
  CASE m = "count" -> Frac(Cardinality(RowsOfGroup(name)), 1)
    [] m = "sum" -> SumOver(RowsOfGroup(name))
    [] m = "average" ->
         LET s == SumOver(RowsOfGroup(name))
         IN  Frac(s.n, s.d * Cardinality(RowsOfGroup(name)))

\* C23: aggregate uses one reduction mode per call: 'average' if the name of
\* the value column contains a rate/percent/average/yield-like token;
\* otherwise 'count' if it contains an identifier-like token; otherwise 'sum',
\* downgraded to 'count' if and only if the first row with a non-null value
\* holds a non-numeric string.  Every group returned has the value of that
\* mode.
C23_OneModeFromName ==
  aggX # Undefined =>
    \A k \in DOMAIN aggOut : aggOut[k].value = Reduced(aggOut[k].name, C23_Mode)

\* a call on a value column whose name holds an average token and a count
\* token, reduced as an average that differs from the count and from the sum
C23_Witness ==
  /\ aggX # Undefined /\ aggOut # <<>>
  /\ \E t \in C23_AverageTokens : Includes(ToLowerCase(aggY.s), t)
  /\ \E t \in C23_CountTokens : Includes(ToLowerCase(aggY.s), t)
  /\ \E k \in DOMAIN aggOut :
       /\ aggOut[k].value # Reduced(aggOut[k].name, "count")
       /\ aggOut[k].value # Reduced(aggOut[k].name, "sum")

\* the string forms of the category values of the rows whose category is not
\* one of the absent values
KeysOfPresent(absent) ==
  { JsString(Get(data[i], aggX.s)) :
      i \in {j \in DOMAIN data :
               /\ Get(data[j], aggX.s).t \notin {"null", "undefined"}
               /\ Get(data[j], aggX.s) \notin absent} }

\* the groups returned are groups of these keys, each key once, and all of
\* them when they are 12 or fewer
GroupsAre(keys) ==
  /\ \A k \in DOMAIN aggOut : aggOut[k].name \in keys
  /\ \A k, l \in DOMAIN aggOut : aggOut[k].name = aggOut[l].name => k = l
  /\ Cardinality(keys) <= 12 => \A key \in keys : \E k \in DOMAIN aggOut : aggOut[k].name = key

\* C24: aggregate creates no group for a row whose category value is absent,
\* that is null, undefined or the empty string; every other row is grouped
\* under the string form of its category value, and each group key appears
\* once in the output.
C24_NoGroupForAbsent ==
  aggX # Undefined => GroupsAre(KeysOfPresent({StrCell(<<>>)}))

\* the same with null and undefined as the only absent values
C24_NoGroupForNull ==
  aggX # Undefined => GroupsAre(KeysOfPresent({}))

\* C25: for every group, in count mode the reduced value is the number of
\* rows of the group; in sum mode it is the sum of the parsed values, a
\* missing or unparseable value contributing 0; in average mode it is that
\* sum divided by the number of rows of the group.
C25_ReducedValues ==
  aggX # Undefined =>
    Bind(mode(data, aggY.s), LAMBDA m :
      \A k \in DOMAIN aggOut :
        LET rows == RowsOfGroup(aggOut[k].name)
        IN  aggOut[k].value =
              CASE m = "count" -> Frac(Cardinality(rows), 1)
                [] m = "sum" -> SumOver(rows)
                [] m = "average" -> Frac(SumOver(rows).n, SumOver(rows).d * Cardinality(rows)))

\* an average over a group of two rows, one of them with no value: the
\* value is half the value of the other row
C25_Witness ==
  /\ aggX # Undefined
  /\ mode(data, aggY.s) = "average"
  /\ \E k \in DOMAIN aggOut :
       LET rows == RowsOfGroup(aggOut[k].name)
       IN  /\ Cardinality(rows) = 2
           /\ \E i \in rows : Get(data[i], aggY.s) = NullCell
           /\ \E i \in rows :
                /\ ~ParseFloat(JsString(Get(data[i], aggY.s))).nan
                /\ FracCmp(ParsedOrZero(i), Frac(0, 1)) > 0
                /\ aggOut[k].value = Frac(ParsedOrZero(i).n, ParsedOrZero(i).d * 2)

----------------------------------------------------------------------------
(* Specification of getDatasetStats: one call on a dataset of a date column,
   a quantity column and a text column *)

MaxStatRows == 4

\* the first columns: no date header, a date header, a date header in Chinese
StatDateNames == << <<"R", "e", "f">>, <<"O", "r", "d", "e", "r", " ", "D", "a", "t", "e">>, <<"U65E5", "U671F">> >>

StatQty == <<"Q", "t", "y">>

StatNote == <<"N", "o", "t", "e">>

\* the cell of the first column in row i
StatDateCell(k, i) ==
  CASE k = 1 -> StrCell(<<"R">> \o NatToString(i))
    [] k = 2 -> StrCell(<<"2", "0", "2", "4", "0", "1", "0">> \o NatToString(i))
    [] k = 3 -> IF i % 3 = 1 THEN StrCell(<<"T", "B", "D">>)
                ELSE IF i % 3 = 2 THEN StrCell(<<"2", "0", "2", "4", "-", "0", "2", "-", "0">> \o NatToString(i))
                ELSE NullCell

StatCells == { NumCell(10), NumCell(0), NumCell(0 - 5), NullCell, StrCell(<<"1", ".", "5">>) }

StatRows(k, cells) ==
  [i \in DOMAIN cells |->
     MkRow(<<StatDateNames[k], StatQty, StatNote>>,
           <<StatDateCell(k, i), cells[i], StrCell(<<"x">>)>>)]

\* the values 10, 0, -5, null, 20
StatExample == <<NumCell(10), NumCell(0), NumCell(0 - 5), NullCell, NumCell(20)>>

\* ten quantities of 1, then a text with a numeric prefix, or a text with
\* none, or a row with no quantity
StatLong(k, last) ==
  StatRows(k, [i \in 1..10 |-> NumCell(1)] \o <<last>>)

StatInputs ==
  UNION { { StatRows(k, cells) : cells \in SeqsUpTo(StatCells, MaxStatRows) \cup {StatExample} }
            \cup { StatLong(k, last) : last \in {StrCell(<<"1", "2", "a", "b", "c">>), StrCell(<<"n", "/", "a">>)} }
            \cup { Append(StatRows(k, << NumCell(3) >>),
                          MkRow(<<StatDateNames[k]>>, <<StatDateCell(k, 2)>>)) } :
          k \in DOMAIN StatDateNames }

InitStats ==
  /\ tz \in TZOffsets
  /\ data \in StatInputs
  /\ parseArgs = <<>> /\ parseRes = <<>>
  /\ clsCol = Undefined /\ clsOut = NoType
  /\ smpLimit = 0 /\ smpOut = NoResult
  /\ cleanRuns = 0 /\ cleanIn = <<>> /\ cleanOnce = <<>>
  /\ aggX = Undefined /\ aggY = Undefined /\ aggOut = NoResult
  /\ stats = NoStats
  /\ AppIdle /\ CallIdle

\* stats = getDatasetStats(data)
Stats ==
  /\ stats = NoStats
  /\ stats' = getDatasetStats(data, tz)
  /\ UNCHANGED <<tz, data, parseArgs, parseRes, clsCol, clsOut, smpLimit,
                 smpOut, cleanRuns, cleanIn, cleanOnce, aggX, aggY, aggOut>>
  /\ UNCHANGED <<appVars, callVars>>

NextStats == Stats

SpecStats == InitStats /\ [][NextStats]_vars

----------------------------------------------------------------------------
(* Claims on getDatasetStats *)

\* the values of a column that parseFloat reads, row by row
Parsed(col) ==
  [i \in DOMAIN data |-> ParseFloat(JsString(Get(data[i], col)))]

ParsedRows(col) == {i \in DOMAIN data : ~Parsed(col)[i].nan}

\* the sum of the parsed values of the rows 1..i
RECURSIVE SumTo(_, _)
SumTo(col, i) ==
  IF i = 0 THEN Frac(0, 1)
  ELSE IF Parsed(col)[i].nan THEN SumTo(col, i - 1)
  ELSE FracAdd(SumTo(col, i - 1), Parsed(col)[i])

\* v is the least (dir = 1) or the greatest (dir = -1) parsed value, or 0
\* when there is none
IsExtreme(col, v, dir) ==
  IF ParsedRows(col) = {} THEN v = Frac(0, 1)
  ELSE /\ \E i \in ParsedRows(col) : v = Parsed(col)[i]
       /\ \A i \in ParsedRows(col) : dir * FracCmp(v, Parsed(col)[i]) <= 0

C13_WitnessRounded ==
  /\ stats # NoStats
  /\ Len(data) = 3
  /\ StatQty \in DOMAIN stats.numericStats
  /\ Cardinality(ParsedRows(StatQty)) = 2
  /\ stats.numericStats[StatQty].avg # Frac(SumTo(StatQty, 3).n, SumTo(StatQty, 3).d * 3)

----------------------------------------------------------------------------
(* Specification of getDatasetStats on quantities that are booleans, numbers,
   null and the texts 'Infinity' and '-Infinity' *)

MaxWideRows == 3

StatWideCells ==
  { BoolCell(TRUE), NumCell(10), NullCell,
    StrCell(<<"I", "n", "f", "i", "n", "i", "t", "y">>),
    StrCell(<<"-", "I", "n", "f", "i", "n", "i", "t", "y">>) }

StatWideInputs ==
  UNION { { StatRows(k, cells) : cells \in SeqsUpTo(StatWideCells, MaxWideRows) } :
          k \in DOMAIN StatDateNames }

InitStatsWide ==
  /\ tz \in TZOffsets
  /\ data \in StatWideInputs
  /\ parseArgs = <<>> /\ parseRes = <<>>
  /\ clsCol = Undefined /\ clsOut = NoType
  /\ smpLimit = 0 /\ smpOut = NoResult
  /\ cleanRuns = 0 /\ cleanIn = <<>> /\ cleanOnce = <<>>
  /\ aggX = Undefined /\ aggY = Undefined /\ aggOut = NoResult
  /\ stats = NoStats
  /\ AppIdle /\ CallIdle

SpecStatsWide == InitStatsWide /\ [][NextStats]_vars

----------------------------------------------------------------------------
(* Claims on the minimum and the maximum of getDatasetStats *)

IsFinite(q) == ~q.nan /\ q.d # 0

\* rowCount and the record of an empty dataset
RowCountRight ==
  /\ stats.rowCount = Len(data)
  /\ data = <<>> =>
       /\ stats.rowCount = 0
       /\ stats.dateRange = EmptyRange
       /\ DOMAIN stats.numericStats = {}

\* min and max of the numeric column col are finite and ordered, and 0 when
\* no value of the column is parseable
MinMaxRight(col) ==
  Bind(stats.numericStats[col], LAMBDA s :
    /\ IsFinite(s.min) /\ IsFinite(s.max)
    /\ FracCmp(s.min, s.max) <= 0
    /\ ParsedRows(col) = {} => s.min = Frac(0, 1) /\ s.max = Frac(0, 1))

\* C28: rowCount is the number of rows; for every numeric column min and max
\* are finite with min <= max, and both are 0 when the column has no
\* parseable value; an empty dataset gives rowCount 0, an empty date range
\* and no numeric entry.
C28_FiniteMinMax ==
  stats # NoStats =>
    /\ RowCountRight
    /\ \A col \in DOMAIN stats.numericStats : MinMaxRight(col)

\* the same for the numeric columns whose parseable values are all finite
C28_FiniteMinMaxOfFiniteValues ==
  stats # NoStats =>
    /\ RowCountRight
    /\ \A col \in DOMAIN stats.numericStats :
         (\A i \in ParsedRows(col) : IsFinite(Parsed(col)[i])) => MinMaxRight(col)

\* a numeric column of booleans: no value is parseable, min and max are 0
C28_WitnessNoneParseable ==
  /\ stats # NoStats
  /\ Len(data) = 2
  /\ StatQty \in DOMAIN stats.numericStats
  /\ \A i \in DOMAIN data : Get(data[i], StatQty) = BoolCell(TRUE)
  /\ stats.numericStats[StatQty].min = Frac(0, 1)
  /\ stats.numericStats[StatQty].max = Frac(0, 1)

\* the empty dataset
C28_WitnessEmpty ==
  stats # NoStats /\ data = <<>> /\ stats.rowCount = 0

----------------------------------------------------------------------------
(* Specification of parseDateSafe: the caller parses one string, or the three
   year-first encodings of one day *)

ParseYears ==
  { <<"2", "0", "2", "5">>, <<"2", "0", "2", "4">>, <<"1", "9", "9", "9">>,
    <<"1", "9", "6", "9">>, <<"0", "0", "2", "5">> }

ParseMonths == { <<"0", "1">>, <<"0", "2">>, <<"0", "6">>, <<"1", "2">>, <<"1", "3">> }

ParseDays == { <<"0", "1">>, <<"1", "5">>, <<"2", "8">> }

Encode8(y, m, d) == y \o m \o d

EncodeSlash(y, m, d) == y \o <<"/">> \o m \o <<"/">> \o d

EncodeHyphen(y, m, d) == y \o <<"-">> \o m \o <<"-">> \o d

\* strings that are no year-first date
ParseOthers ==
  { <<>>,
    <<" ">>,
    <<"n", "o", "t", "-", "a", "-", "d", "a", "t", "e">>,
    <<"a", "b", "c">>,
    <<"2", "0", "2", "5", "0", "6">>,
    <<"2", "0", "2", "5", "1", "3">>,
    <<"2", "0", "2", "5">>,
    <<"2", "0", "2", "5", "-", "6", "-", "1", "5">>,
    <<" ", "2", "0", "2", "5", "0", "6", "1", "5", " ">> }

OtherIdle ==
  /\ data = <<>>
  /\ clsCol = Undefined /\ clsOut = NoType
  /\ smpLimit = 0 /\ smpOut = NoResult
  /\ cleanRuns = 0 /\ cleanIn = <<>> /\ cleanOnce = <<>>
  /\ aggX = Undefined /\ aggY = Undefined /\ aggOut = NoResult
  /\ stats = NoStats
  /\ AppIdle /\ CallIdle

InitParse ==
  /\ tz \in TZOffsets
  /\ parseArgs = <<>> /\ parseRes = <<>>
  /\ OtherIdle

ParseCalls(args) ==
  /\ parseArgs' = args
  /\ parseRes' = [i \in DOMAIN args |-> parseDateSafe(args[i], tz)]
  /\ UNCHANGED <<tz, data, clsCol, clsOut, smpLimit, smpOut, cleanRuns,
                 cleanIn, cleanOnce, aggX, aggY, aggOut, stats>>
  /\ UNCHANGED <<appVars, callVars>>

\* parse(s) for one string
ParseOne == \E s \in ParseOthers : ParseCalls(<<s>>)

\* parse of the 8-digit, slash and hyphen encodings of one day
ParseEncodings ==
  \E y \in ParseYears, m \in ParseMonths, d \in ParseDays :
    ParseCalls(<<Encode8(y, m, d), EncodeSlash(y, m, d), EncodeHyphen(y, m, d)>>)

NextParse == ParseOne \/ ParseEncodings

SpecParse == InitParse /\ [][NextParse]_vars

----------------------------------------------------------------------------
(* Claims on parseDateSafe *)

\* the calendar day a year-first string denotes, <<>> when it denotes none:
\* YYYYMMDD, YYYY/MM/DD or YYYY-MM-DD with a month 1..12 and a day of that month
DaysInMonth(y, m) ==
  IF m = 2 THEN (IF IsLeap(y) THEN 29 ELSE 28)
  ELSE IF m \in {4, 6, 9, 11} THEN 30 ELSE 31

DenotedDay(s) ==
  LET t == Trim(s)
      f == IF Len(t) = 8 /\ AllDigits(t)
           THEN <<SubSeq(t, 1, 4), SubSeq(t, 5, 6), SubSeq(t, 7, 8)>>
           ELSE IF /\ Len(t) = 10 /\ t[5] \in {"-", "/"} /\ t[8] = t[5]
                   /\ AllDigits(SubSeq(t, 1, 4)) /\ AllDigits(SubSeq(t, 6, 7))
                   /\ AllDigits(SubSeq(t, 9, 10))
           THEN <<SubSeq(t, 1, 4), SubSeq(t, 6, 7), SubSeq(t, 9, 10)>>
           ELSE <<>>
  IN  IF f = <<>> THEN <<>>
      ELSE LET y == DigitsValue(f[1])
               m == DigitsValue(f[2])
               d == DigitsValue(f[3])
           IN  IF m \in 1..12 /\ d \in 1..DaysInMonth(y, m)
               THEN <<y, m, d>> ELSE <<>>

\* C5 (as claimed): the 8-digit, slash and hyphen encodings of one calendar
\* day parse to the same time value, local midnight of that day (stated here
\* for the days of year 2000 and later only).
C5_EncodingsAgree ==
  (/\ Len(parseArgs) = 3
   /\ DenotedDay(parseArgs[1]) # <<>>
   /\ DenotedDay(parseArgs[1])[1] >= 2000) =>
    /\ parseRes[1] = parseRes[2]
    /\ parseRes[2] = parseRes[3]

\* C6 (as claimed): parse is never NaN and never negative, is 0 for every
\* string that denotes no valid calendar day, and is strictly positive for
\* every valid day after 1970.
C6_ZeroOrPositive ==
  \A i \in DOMAIN parseArgs :
    /\ ~parseRes[i].nan
    /\ parseRes[i].v >= 0
    /\ DenotedDay(parseArgs[i]) = <<>> => parseRes[i].v = 0
    /\ (DenotedDay(parseArgs[i]) # <<>> /\ DenotedDay(parseArgs[i])[1] > 1970)
         => parseRes[i].v > 0

----------------------------------------------------------------------------
(* Specification of the read-only operations: detectColumnType, parseDateSafe,
   getDatasetStats, getSmartSample and aggregateData called once each, in any
   order, on one dataset *)

\* datasets of three groups in descending order: categories that are text,
\* categories that are dates, and the empty dataset
PureInputs ==
  { [i \in 1..n |-> AggRow(k, n + 1 - i)] : k \in {1, 3}, n \in {0, 3} }

InitPure ==
  /\ tz = 8
  /\ data \in PureInputs
  /\ parseArgs = <<>> /\ parseRes = <<>>
  /\ clsCol = Undefined /\ clsOut = NoType
  /\ smpLimit = 0 /\ smpOut = NoResult
  /\ cleanRuns = 0 /\ cleanIn = <<>> /\ cleanOnce = <<>>
  /\ aggX = Undefined /\ aggY = Undefined /\ aggOut = NoResult
  /\ stats = NoStats
  /\ AppIdle /\ CallIdle

\* parseDateSafe on a cell of the dataset, or on a text that is no date
ParseCell ==
  /\ parseArgs = <<>>
  /\ \E s \in {JsString(c) : c \in {Category(3, 1), StrCell(<<"T", "B", "D">>)}} :
       ParseCalls(<<s>>)

NextPure == Classify \/ ParseCell \/ Stats \/ Sample \/ Aggregate

SpecPure == InitPure /\ [][NextPure]_vars

----------------------------------------------------------------------------
(* Claims on the read-only operations *)

\* C17: classify, parse, DatasetStatistics, sample and aggregate never modify
\* their input: after any sequence of calls to them, every row of the dataset
\* has the same keys and the same cell values, and the rows are in the same
\* order, as before the calls.
C17_InputUnmodified == [][data' = data]_vars

\* the five operations have been called on a dataset of several rows, and
\* aggregate returned the groups in another order than the one of the rows
C17_Witness ==
  /\ Len(data) > 1
  /\ clsOut # NoType /\ parseArgs # <<>> /\ stats # NoStats /\ smpLimit # 0
  /\ aggX # Undefined
  /\ Len(aggOut) = Len(data)
  /\ aggOut[1].name # JsString(Get(data[1], aggX.s))

----------------------------------------------------------------------------
(* The App component: the language effect, handleStartAnalysis and
   handleReset.  A run of the effect is a record of the language it was
   started for, its flag isAborted and the state of its request: skipped when
   the condition of the effect was false, awaiting, settled. *)

Languages == {"en-US", "zh-TW", "vi-VN"}

MaxEffects == 3

MaxNow == 2

\* the AnalysisResult of a request made in language l
AnalysisIn(l) == [language |-> l]

\* what parseMultipleExcelFiles returns: no row, or one row
AppParsed == { <<>>, StatRows(2, <<NumCell(10)>>) }

\* a cleanup that leaves the flag alone
Cleanup_none(runs) == runs

\* the cleanup function of the last run of the effect: isAborted = true
Cleanup(runs) ==
  [i \in DOMAIN runs |->
     IF i = Len(runs) THEN [runs[i] EXCEPT !.isAborted = TRUE] ELSE runs[i]]

\* appState === AppState.SUCCESS && data.length > 0
EffectRequests == appState = "SUCCESS" /\ Len(data) > 0

\* the run of the effect for language l, up to its await
EffectRun(l) ==
  [language |-> l, isAborted |-> FALSE,
   state |-> IF EffectRequests THEN "awaiting" ELSE "skipped"]

\* the state after the mount: the first run of the effect finds no analysis
InitApp ==
  /\ tz = 8
  /\ data = <<>>
  /\ parseArgs = <<>> /\ parseRes = <<>>
  /\ clsCol = Undefined /\ clsOut = NoType
  /\ smpLimit = 0 /\ smpOut = NoResult
  /\ cleanRuns = 0 /\ cleanIn = <<>> /\ cleanOnce = <<>>
  /\ aggX = Undefined /\ aggY = Undefined /\ aggOut = NoResult
  /\ stats = NoStats
  /\ language = "en-US" /\ appState = "IDLE" /\ analysis = NoAnalysis
  /\ lastUpdated = 0 /\ isRefreshing = FALSE /\ now = 0
  /\ effects = << [language |-> "en-US", isAborted |-> FALSE, state |-> "skipped"] >>
  /\ startCall = NoCall
  /\ CallIdle

dataVars == <<tz, parseArgs, parseRes, clsCol, clsOut, smpLimit, smpOut,
              cleanRuns, cleanIn, cleanOnce, aggX, aggY, aggOut, stats>>

\* time passes
Tick ==
  /\ now < MaxNow
  /\ now' = now + 1
  /\ UNCHANGED <<data, dataVars, language, appState, analysis, lastUpdated,
                 isRefreshing, effects, startCall, callVars>>

\* setLanguage(l) with another language: the cleanup of the last run of the
\* effect, then the effect for l, up to its await
SetLanguage ==
  /\ Len(effects) < MaxEffects
  /\ \E l \in Languages \ {language} :
       /\ language' = l
       /\ effects' = Append(Cleanup(effects), EffectRun(l))
  /\ isRefreshing' = IF EffectRequests THEN TRUE ELSE isRefreshing
  /\ UNCHANGED <<data, dataVars, appState, analysis, lastUpdated, now,
                 startCall, callVars>>

\* analyzeDataWithGemini returns to run i of the effect
EffectResolved ==
  /\ \E i \in DOMAIN effects :
       /\ effects[i].state = "awaiting"
       /\ effects' = [effects EXCEPT ![i].state = "settled"]
       /\ IF ~effects[i].isAborted
          THEN /\ analysis' = AnalysisIn(effects[i].language)
               /\ lastUpdated' = now
               /\ isRefreshing' = FALSE
          ELSE UNCHANGED <<analysis, lastUpdated, isRefreshing>>
  /\ UNCHANGED <<data, dataVars, language, appState, now, startCall, callVars>>

\* analyzeDataWithGemini throws in run i of the effect
EffectRejected ==
  /\ \E i \in DOMAIN effects :
       /\ effects[i].state = "awaiting"
       /\ effects' = [effects EXCEPT ![i].state = "settled"]
       /\ isRefreshing' = IF ~effects[i].isAborted THEN FALSE ELSE isRefreshing
  /\ UNCHANGED <<data, dataVars, language, appState, analysis, lastUpdated,
                 now, startCall, callVars>>

\* handleStartAnalysis, up to its first await
StartAnalysis ==
  /\ appState = "IDLE"
  /\ appState' = "PARSING"
  /\ startCall' = [stage |-> "parsing", language |-> language]
  /\ UNCHANGED <<data, dataVars, language, analysis, lastUpdated,
                 isRefreshing, effects, now, callVars>>

\* handleStartAnalysis from the parsed rows to the await of the analysis
StartParsed ==
  /\ startCall.stage = "parsing"
  /\ \E rows \in AppParsed : data' = cleanAndEnrichData(rows, tz)
  /\ appState' = "ANALYZING"
  /\ startCall' = [startCall EXCEPT !.stage = "analyzing"]
  /\ UNCHANGED <<dataVars, language, analysis, lastUpdated, isRefreshing,
                 effects, now, callVars>>

\* handleStartAnalysis after the analysis has come
StartResolved ==
  /\ startCall.stage = "analyzing"
  /\ analysis' = AnalysisIn(startCall.language)
  /\ lastUpdated' = now
  /\ appState' = "SUCCESS"
  /\ startCall' = NoCall
  /\ UNCHANGED <<data, dataVars, language, isRefreshing, effects, now, callVars>>

\* the catch of handleStartAnalysis
StartRejected ==
  /\ startCall.stage \in {"parsing", "analyzing"}
  /\ appState' = "ERROR"
  /\ startCall' = NoCall
  /\ UNCHANGED <<data, dataVars, language, analysis, lastUpdated,
                 isRefreshing, effects, now, callVars>>

\* handleReset, from the error banner or the dashboard
Reset ==
  /\ appState \in {"ERROR", "SUCCESS"}
  /\ appState' = "IDLE"
  /\ data' = <<>>
  /\ analysis' = NoAnalysis
  /\ isRefreshing' = FALSE
  /\ UNCHANGED <<dataVars, language, lastUpdated, effects, now, startCall,
                 callVars>>

NextApp ==
  \/ Tick \/ SetLanguage \/ EffectResolved \/ EffectRejected
  \/ StartAnalysis \/ StartParsed \/ StartResolved \/ StartRejected \/ Reset

SpecApp == InitApp /\ [][NextApp]_vars

----------------------------------------------------------------------------
(* Claims on the language effect *)

\* run i of the effect is superseded: a newer run has started
Superseded(i) == i < Len(effects)

\* C29: the outcome of a superseded language request, result or failure, is
\* never applied: the step in which it arrives leaves analysis, lastUpdated
\* and isRefreshing as they are, whatever the order of the responses.
C29_SupersededNeverApplied ==
  [][\A i \in DOMAIN effects :
       (Superseded(i) /\ effects[i].state = "awaiting" /\ effects'[i].state = "settled")
         => UNCHANGED <<analysis, lastUpdated, isRefreshing>>]_vars

\* every superseded run is aborted
C29_SupersededAborted ==
  \A i \in DOMAIN effects : Superseded(i) => effects[i].isAborted

\* the outcome of the older of two requests has come while the newer is in
\* flight: the analysis is still the one of the first language, later than
\* the time of its update, and the refresh goes on
C29_Witness ==
  /\ Len(effects) = 3
  /\ effects[2].state = "settled" /\ effects[3].state = "awaiting"
  /\ analysis = AnalysisIn("en-US")
  /\ effects[2].language # "en-US"
  /\ lastUpdated < now
  /\ isRefreshing

\* the newer of two requests has been applied while the older is in flight
C29_WitnessOutOfOrder ==
  /\ Len(effects) = 3
  /\ effects[2].state = "awaiting" /\ effects[3].state = "settled"
  /\ analysis = AnalysisIn(language)
  /\ ~isRefreshing

----------------------------------------------------------------------------
(* analyzeDataWithGemini: the requests of one call.  The two copies of the
   function differ in the markers of a retryable error. *)

Variants == {"services/geminiService.ts", "unnamed/part_001"}

\* the delay given to setTimeout, in milliseconds
RetryDelay == 1000

\* the timer fires at the delay or later
MaxElapsed == 1500

\* an error with message msg
Err(msg) == [kind |-> "error", message |-> msg]

\* the messages of the errors of performRequest; the last one is empty
ErrMessages ==
  { <<"s", "t", "a", "t", "u", "s", " ", "5", "0", "0">>, <<"x", "h", "r", " ", "e", "r", "r", "o", "r">>, <<"X", "H", "R", " ", "e", "r", "r", "o", "r">>, <<"F", "a", "i", "l", "e", "d", " ", "t", "o", " ", "f", "e", "t", "c", "h">>,
    <<"R", "p", "c", " ", "f", "a", "i", "l", "e", "d">>, <<"s", "t", "a", "t", "u", "s", " ", "4", "0", "3">>, <<>> }

\* what generateContent resolves to: a text that is JSON, no text, a text
\* that is no JSON
Responses == {"json", "empty", "invalid"}

\* new Error("No response generated from AI.")
NoResponse == Err(<<"N", "o", " ", "r", "e", "s", "p", "o", "n", "s", "e", " ", "g", "e", "n", "e", "r", "a", "t", "e", "d", " ", "f", "r", "o", "m", " ", "A", "I", ".">>)

\* the SyntaxError of JSON.parse
ParseError == Err(<<"U", "n", "e", "x", "p", "e", "c", "t", "e", "d", " ", "t", "o", "k", "e", "n">>)

\* the markers of the copy v: '500', 'xhr', 'fetch', and 'Rpc' in one copy
Markers(v) ==
  { <<"5", "0", "0">>, <<"x", "h", "r">>, <<"f", "e", "t", "c", "h">> }
    \cup IF v = "services/geminiService.ts" THEN { <<"R", "p", "c">> } ELSE {}

\* a condition that retries every error
Retryable_always(v, msg) == TRUE

\* err.message && (err.message.includes('500') || ...)
Retryable(v, msg) ==
  /\ msg # <<>>
  /\ \E mk \in Markers(v) : Includes(msg, mk)

InitCall ==
  /\ tz = 8
  /\ data = <<>>
  /\ parseArgs = <<>> /\ parseRes = <<>>
  /\ clsCol = Undefined /\ clsOut = NoType
  /\ smpLimit = 0 /\ smpOut = NoResult
  /\ cleanRuns = 0 /\ cleanIn = <<>> /\ cleanOnce = <<>>
  /\ aggX = Undefined /\ aggY = Undefined /\ aggOut = NoResult
  /\ stats = NoStats
  /\ AppIdle
  /\ variant \in Variants
  /\ pc = "idle" /\ sent = 0 /\ firstErr = Nothing /\ secondErr = Nothing
  /\ elapsed = 0 /\ outcome = Nothing

\* the call up to the await of the first performRequest
CallGemini ==
  /\ pc = "idle"
  /\ pc' = "request1"
  /\ sent' = 1
  /\ UNCHANGED <<data, dataVars, appVars, variant, firstErr, secondErr,
                 elapsed, outcome>>

\* the first performRequest throws: setTimeout for a retryable error, the
\* error to the caller otherwise
FirstFails ==
  /\ pc = "request1"
  /\ \E msg \in ErrMessages :
       /\ firstErr' = Err(msg)
       /\ IF Retryable(variant, msg)
          THEN pc' = "waiting" /\ outcome' = outcome
          ELSE pc' = "thrown" /\ outcome' = Err(msg)
  /\ elapsed' = 0
  /\ UNCHANGED <<data, dataVars, appVars, variant, sent, secondErr>>

\* half a second passes while the timer runs
Wait ==
  /\ pc = "waiting"
  /\ elapsed < MaxElapsed
  /\ elapsed' = elapsed + 500
  /\ UNCHANGED <<data, dataVars, appVars, variant, pc, sent, firstErr,
                 secondErr, outcome>>

\* the timer fires: the second performRequest
TimerFires ==
  /\ pc = "waiting"
  /\ elapsed >= RetryDelay
  /\ pc' = "request2"
  /\ sent' = sent + 1
  /\ UNCHANGED <<data, dataVars, appVars, variant, firstErr, secondErr,
                 elapsed, outcome>>

\* the second performRequest throws: the error to the caller
SecondFails ==
  /\ pc = "request2"
  /\ \E msg \in ErrMessages :
       /\ secondErr' = Err(msg)
       /\ outcome' = Err(msg)
  /\ pc' = "thrown"
  /\ UNCHANGED <<data, dataVars, appVars, variant, sent, firstErr, elapsed>>

\* a performRequest resolves: the parsed text, or an error
Responds ==
  /\ pc \in {"request1", "request2"}
  /\ \E r \in Responses :
       /\ pc' = IF r = "json" THEN "returned" ELSE "thrown"
       /\ outcome' = CASE r = "json" -> [kind |-> "value", message |-> <<>>]
                       [] r = "empty" -> NoResponse
                       [] r = "invalid" -> ParseError
  /\ UNCHANGED <<data, dataVars, appVars, variant, sent, firstErr, secondErr,
                 elapsed>>

NextCall ==
  CallGemini \/ FirstFails \/ Wait \/ TimerFires \/ SecondFails \/ Responds

SpecCall == InitCall /\ [][NextCall]_vars

----------------------------------------------------------------------------
(* Claims on the retry of analyzeDataWithGemini *)

\* the message holds '500', 'xhr' or 'fetch', or 'Rpc' in
\* services/geminiService.ts
HasMarker(msg) ==
  \/ Includes(msg, <<"5", "0", "0">>) \/ Includes(msg, <<"x", "h", "r">>) \/ Includes(msg, <<"f", "e", "t", "c", "h">>)
  \/ variant = "services/geminiService.ts" /\ Includes(msg, <<"R", "p", "c">>)

\* C30: a call sends at most two requests; the second is sent only after the
\* first failed with a message that holds a retryable marker, and only after
\* a wait of one second; any other first failure, and any failure of the
\* second request, goes to the caller with no further request.
C30_AtMostOneRetry ==
  /\ sent <= 2
  /\ sent = 2 =>
       /\ firstErr.kind = "error" /\ HasMarker(firstErr.message)
       /\ elapsed >= 1000
  /\ (firstErr.kind = "error" /\ ~HasMarker(firstErr.message)) =>
       pc = "thrown" /\ outcome = firstErr /\ sent = 1
  /\ secondErr.kind = "error" =>
       pc = "thrown" /\ outcome = secondErr /\ sent = 2

\* 'Rpc failed' was retried after a second and the second request failed with
\* a retryable error, which went to the caller
C30_Witness ==
  /\ variant = "services/geminiService.ts"
  /\ firstErr = Err(<<"R", "p", "c", " ", "f", "a", "i", "l", "e", "d">>)
  /\ sent = 2 /\ elapsed >= 1000
  /\ secondErr = Err(<<"s", "t", "a", "t", "u", "s", " ", "5", "0", "0">>)
  /\ pc = "thrown" /\ outcome = secondErr

\* 'Rpc failed' went to the caller of the copy that has no 'Rpc' marker
C30_WitnessNoRpc ==
  /\ variant = "unnamed/part_001"
  /\ firstErr = Err(<<"R", "p", "c", " ", "f", "a", "i", "l", "e", "d">>)
  /\ sent = 1 /\ pc = "thrown" /\ outcome = firstErr

====
